---- MODULE Spec2Model ----
(***************************************************************************)
(* Model of the artemis test fixture (src/artemis/base_pytest.py): the     *)
(* dataset loader run by manage_data, with its retry-wrapped waits, and    *)
(* the reference creation / comparison done by request_compare.            *)
(*                                                                         *)
(* Times are in milliseconds, as the retry decorator receives them.        *)
(***************************************************************************)
EXTENDS Integers, Sequences, FiniteSets, TLC

(* ------------------------------------------------------------------ *)
(* Bounds of the model                                                  *)
(* ------------------------------------------------------------------ *)

\* largest reload_timeout (ms) a modelled dataset is configured with
MaxReloadTimeout == 2
\* timestamps (created_at, utcnow) range over 0..MaxStamp
MaxStamp == 2
\* longest job list the jobs endpoint returns in SpecJobs
MaxJobs == 2
\* number of times the routing engine reloads its data
MaxLoads == 1
\* largest number of request_compare calls a test function makes
MaxCalls == 2

(* ------------------------------------------------------------------ *)
(* Program constants                                                    *)
(* ------------------------------------------------------------------ *)

\* wait_for_tyr_instance_scan: @retry(stop_max_delay=60000, wait_fixed=500)
TyrScanStopMaxDelay == 60000
TyrScanWaitFixed == 500

(* ------------------------------------------------------------------ *)
(* Exceptions and results of one attempt                                *)
(* ------------------------------------------------------------------ *)

Exc(type, msg) == [type |-> type, msg |-> msg]
NoExc == Exc("none", "none")

Return == [kind |-> "return", exc |-> NoExc]
Raise(type, msg) == [kind |-> "raise", exc |-> Exc(type, msg)]

\* utils.is_retry_exception: only utils.RetryError asks for another attempt
is_retry_exception(exc) == exc.type = "RetryError"

(* ------------------------------------------------------------------ *)
(* The retry decorator                                                  *)
(* ------------------------------------------------------------------ *)

\* A call of a retry-wrapped function.  delay is the time since the first
\* attempt started; status is "calling" while the loop runs, "returned" or
\* "raised" once it has ended; last is the signal of the latest attempt.
NewWait(name, stop_max_delay, wait_fixed) ==
    [name |-> name, stop_max_delay |-> stop_max_delay, wait_fixed |-> wait_fixed,
     attempt_number |-> 0, delay |-> 0, status |-> "calling",
     last |-> "none", exc |-> NoExc]

NoWait == [NewWait("none", 0, 0) EXCEPT !.status = "returned"]

\* retry_on_exception=utils.is_retry_exception
RetryOnExceptionAll(exc) == TRUE
RetryOnException(exc) == is_retry_exception(exc)

\* stop_max_delay: stop once the delay since the first attempt reached it
StopAfterDelayStrict(delay, stop_max_delay) == delay > stop_max_delay
StopAfterDelay(delay, stop_max_delay) == delay >= stop_max_delay

\* One turn of the decorator's loop: the attempt took `dur` and ended with
\* `result`.  A returned value ends the call; an exception that is not
\* retryable is re-raised as it is; a retryable one is re-raised as it is
\* when the stop condition holds, and otherwise the loop sleeps wait_fixed.
\* retrying's retry_on_exception when the decorator is given none
\* (Retrying.always_reject): every exception asks for another attempt
always_reject(exc) == TRUE

\* time.sleep(wait_fixed) between two attempts
SleepNone(delay, wait_fixed) == delay
Sleep(delay, wait_fixed) == delay + wait_fixed

\* one turn of the loop of Retrying.call; reject is should_reject(attempt)
\* for an attempt that raised
Retrying(w, result, dur, reject) ==
    LET delay == w.delay + dur
        done == [w EXCEPT !.attempt_number = w.attempt_number + 1, !.delay = delay]
    IN  IF result.kind = "return"
        THEN [done EXCEPT !.status = "returned", !.last = "return", !.exc = NoExc]
        ELSE IF ~reject
        THEN [done EXCEPT !.status = "raised", !.last = "fatal", !.exc = result.exc]
        ELSE IF StopAfterDelay(delay, w.stop_max_delay)
        THEN [done EXCEPT !.status = "raised", !.last = "retryable", !.exc = result.exc]
        ELSE [done EXCEPT !.status = "calling", !.last = "retryable", !.exc = result.exc,
                          !.delay = Sleep(delay, w.wait_fixed)]

\* @retry(..., retry_on_exception=utils.is_retry_exception)
RetryingCall(w, result, dur) ==
    Retrying(w, result, dur, RetryOnException(result.exc))

(* ------------------------------------------------------------------ *)
(* Datasets and test classes                                            *)
(* ------------------------------------------------------------------ *)

\* The datasets of the suite, immutable once it starts: one whose waits may
\* poll for MaxReloadTimeout, one configured with reload_timeout = 0.
DataSetNames == {"fr-idf", "fr-auv"}
DataSets ==
    {[name |-> "fr-idf", reload_timeout |-> MaxReloadTimeout, fixed_wait |-> 1],
     [name |-> "fr-auv", reload_timeout |-> 0, fixed_wait |-> 1]}
NoDataSet == [name |-> "none", reload_timeout |-> 0, fixed_wait |-> 0]

\* cls.data_sets of the test classes of a run: one dataset, or two different ones
TestClasses ==
    {<<d>> : d \in DataSets} \cup {<<p[1], p[2]>> : p \in {q \in DataSets \X DataSets : q[1] # q[2]}}

SeqToSet(s) == {s[i] : i \in 1..Len(s)}

(* ------------------------------------------------------------------ *)
(* The operations the waits retry                                       *)
(* ------------------------------------------------------------------ *)

\* wait_for_tyr_instance_scan: GET /v0/instances/, raise_for_status, then the
\* instance name must be among the names listed
wait_for_tyr_instance_scan(http, instances, instance_name) ==
    IF http # "ok" THEN Raise(http, "instances request")
    ELSE IF instance_name \notin instances
    THEN Raise("RetryError", "Instance not yet scanned by Tyr")
    ELSE Return

DataTypes == {"fusio", "osm", "poi", "geopal"}
DataSetStates == {"pending", "running", "done", "failed"}

\* the inner loop of wait_for_data_processing over job["data_sets"]: the first
\* entry of the wanted type decides; "continue" when the job has none
RECURSIVE ScanDataSetsFailedRetried(_, _)
ScanDataSetsFailedRetried(data_sets, data_type) ==
    IF data_sets = <<>> THEN "continue"
    ELSE LET dataset == Head(data_sets)
         IN  IF data_type = dataset.type
             THEN IF dataset.state = "done" THEN "done" ELSE "in process"
             ELSE ScanDataSetsFailedRetried(Tail(data_sets), data_type)

RECURSIVE ScanDataSets(_, _)
ScanDataSets(data_sets, data_type) ==
    IF data_sets = <<>> THEN "continue"
    ELSE LET dataset == Head(data_sets)
         IN  IF data_type = dataset.type
             THEN IF dataset.state = "done" THEN "done"
                  ELSE IF dataset.state # "failed" THEN "in process"
                  ELSE "failed"
             ELSE ScanDataSets(Tail(data_sets), data_type)

\* the outer loop over the jobs of the response, in the order received
RECURSIVE ScanJobsSinceIncluded(_, _, _)
ScanJobsSinceIncluded(jobs_list, data_type, time_limit) ==
    IF jobs_list = <<>>
    THEN Raise("RetryError", "Job not yet created")
    ELSE LET job == Head(jobs_list)
             found == IF job.created_at >= time_limit
                      THEN ScanDataSets(job.data_sets, data_type)
                      ELSE "continue"
         IN  CASE found = "done" -> Return
               [] found = "in process" -> Raise("RetryError", "Job still in process")
               [] found = "failed" -> Raise("Exception", "Dataset failed")
               [] OTHER -> ScanJobsSinceIncluded(Tail(jobs_list), data_type, time_limit)

RECURSIVE ScanJobs(_, _, _)
ScanJobs(jobs_list, data_type, time_limit) ==
    IF jobs_list = <<>>
    THEN Raise("RetryError", "Job not yet created")
    ELSE LET job == Head(jobs_list)
             found == IF job.created_at > time_limit
                      THEN ScanDataSets(job.data_sets, data_type)
                      ELSE "continue"
         IN  CASE found = "done" -> Return
               [] found = "in process" -> Raise("RetryError", "Job still in process")
               [] found = "failed" -> Raise("Exception", "Dataset failed")
               [] OTHER -> ScanJobs(Tail(jobs_list), data_type, time_limit)

\* wait_for_data_processing: GET /v0/jobs/{instance}, raise_for_status, scan
wait_for_data_processing(http, jobs_list, data_type, time_limit) ==
    IF http # "ok" THEN Raise(http, "jobs request")
    ELSE ScanJobs(jobs_list, data_type, time_limit)

\* get_last_coverage_loaded_time: status.last_load_at of the coverage status,
\* "" (here 0) when the answer has no such field
NoLoadTime == 0
get_last_coverage_loaded_time(has_field, load_at) ==
    IF has_field THEN load_at ELSE NoLoadTime

\* utils.request reaches the backend or fails at the transport level
Transports == {"ok", "ConnectionError"}

\* wait_for_kraken_reload: read the last load time, retry while it is the
\* baseline
wait_for_kraken_reload_same(transport, last_data_loaded, new_loaded) ==
    IF transport # "ok" THEN Raise(transport, "coverage status request")
    ELSE IF last_data_loaded # new_loaded
    THEN Raise("RetryError", "kraken data is not loaded")
    ELSE Return
wait_for_kraken_reload(transport, last_data_loaded, new_loaded) ==
    IF transport # "ok" THEN Raise(transport, "coverage status request")
    ELSE IF last_data_loaded = new_loaded
    THEN Raise("RetryError", "kraken data is not loaded")
    ELSE Return

(* ------------------------------------------------------------------ *)
(* State                                                                *)
(* ------------------------------------------------------------------ *)

VARIABLES
    pc,                        \* position of the fixture code being run
    dataset_binarized,         \* ArtemisTestFixture.dataset_binarized
    todo,                      \* datasets of cls.data_sets still to visit
    data_set,                  \* the dataset being loaded
    wait,                      \* the running (or last) retry-wrapped call
    error,                     \* exception that left manage_data, if any
    containers,                \* tyr_worker containers listed by update_data_by_dataset
    last_reload_time,          \* baseline captured before staging
    current_utc_datetime,      \* "since" captured before staging
    stage_idx,                 \* index in data_to_process
    dataset_types_to_process,  \* dataset types staged, in order
    job_idx,                   \* index in dataset_types_to_process
    jobs_resp,                 \* job list of the latest poll (kept by SpecJobs)
    new_data_loaded,           \* last_load_at seen by the latest reload poll
    last_load_at,              \* the routing engine's last load time
    pushed,                    \* categories whose archive was put in the container
    steps_run,                 \* load steps run so far for data_set
    cpc,                       \* position of the test code being run
    create_ref,                \* self.create_ref
    nb_call_to_request_compare,\* self.nb_call_to_request_compare
    files,                     \* reference and artifact files on disk
    output_dir,                \* the per-test output directory exists
    response_string,           \* text of the response to the latest query
    raised,                    \* exception that ended the test function, if any
    http_gets,                 \* GETs issued by the latest request_compare
    compared,                  \* times the latest request_compare ran checker.compare
    blk_idx,                   \* position in the except block of compare_with_ref
    dpc,                       \* position of docker_orchestrator.py
    fleet,                     \* status of each container of the runtime
    dwait,                     \* the running call of a wait of docker_orchestrator
    inner,                     \* the running call of wait_for_instance_configuration_status
    op_time,                   \* time spent so far in the current attempt of dwait
    cov_idx,                   \* index of the instance launch_coverages is at
    instance_file,             \* docker-instance-<name>.yml exists
    has_failures,              \* has_failures of launch_coverages
    pytest_exit,               \* p of launch_coverages: exit code of the latest pytest.main
    derror,                    \* exception that ended docker_orchestrator.py, if any
    tyr_jobs,                  \* Tyr: state of the job of each staged dataset type
    kraken_data,               \* routing engine: staged types whose data it serves
    local_dirs,                \* categories with a directory under data_path/<dataset>
    exec_runs                  \* commands run in containers by exec_run, in order

loaderVars == <<pc, dataset_binarized, todo, data_set, wait, error, containers,
                last_reload_time, current_utc_datetime, stage_idx,
                dataset_types_to_process, job_idx, jobs_resp, new_data_loaded,
                last_load_at, pushed, steps_run>>

compareVars == <<cpc, create_ref, nb_call_to_request_compare, files, output_dir,
                 response_string, raised, http_gets, compared, blk_idx>>

dockerVars == <<dpc, fleet, dwait, inner, op_time, cov_idx, instance_file,
                has_failures, pytest_exit, derror>>

envVars == <<tyr_jobs, kraken_data, local_dirs, exec_runs>>

vars == <<loaderVars, compareVars, dockerVars, envVars>>

\* (type of data files, type of dataset, is zipped), in the order staged
data_to_process_poi_first ==
    << [files |-> "fusio-poi",    type |-> "poi",    zipped |-> TRUE],
       [files |-> "fusio",        type |-> "fusio",  zipped |-> TRUE],
       [files |-> "osm",          type |-> "osm",    zipped |-> FALSE],
       [files |-> "geopal",       type |-> "geopal", zipped |-> TRUE],
       [files |-> "fusio-geopal", type |-> "geopal", zipped |-> TRUE] >>
data_to_process ==
    << [files |-> "fusio",        type |-> "fusio",  zipped |-> TRUE],
       [files |-> "osm",          type |-> "osm",    zipped |-> FALSE],
       [files |-> "fusio-poi",    type |-> "poi",    zipped |-> TRUE],
       [files |-> "geopal",       type |-> "geopal", zipped |-> TRUE],
       [files |-> "fusio-geopal", type |-> "geopal", zipped |-> TRUE] >>

StepKinds == {"registry_poll", "config_push", "exec", "put_archive",
              "job_wait", "reload_wait", "config_check"}
NoSteps == {}
Ran(kind) == steps_run \cup {kind}

HttpOutcomes == {"ok", "HTTPError"}
\* what docker.DockerClient(...).containers.list() filtered on "tyr_worker" gives
DockerListings == {"none", "worker", "unreachable"}
Stamps == 0..MaxStamp

\* a job of GET /v0/jobs/{instance}
Job(created_at, type, state) ==
    [created_at |-> created_at, data_sets |-> <<[type |-> type, state |-> state]>>]
Jobs(types) == {Job(c, t, s) : c \in Stamps, t \in types, s \in DataSetStates}
RECURSIVE JobListsUpTo(_, _)
JobListsUpTo(n, types) ==
    IF n = 0 THEN {<<>>}
    ELSE LET shorter == JobListsUpTo(n - 1, types)
         IN  shorter \cup {<<j>> \o l : j \in Jobs(types), l \in {x \in shorter : Len(x) = n - 1}}

(* ------------------------------------------------------------------ *)
(* Responses, filters and reference files                               *)
(* ------------------------------------------------------------------ *)

\* config["URL_JORMUN"][7:], the host of the backend, and what replaces it
JormunHost == "jormun"
LocalHost == "localhost"

\* str.replace(config["URL_JORMUN"][7:], "localhost") on one piece of text
Replace(text) ==
    IF text = JormunHost THEN LocalHost ELSE text

\* a JSON text is the sequence of its members, in the order they are written;
\* a member is a key and the host its value mentions
Member(key, host) == [key |-> key, val |-> host]
Keys == {"journeys", "links"}
Hosts == {JormunHost, LocalHost}
Members == {Member(k, h) : k \in Keys, h \in Hosts}

\* the texts a query is answered with: objects whose keys are distinct
JsonTexts ==
    {<<>>} \cup {<<m>> : m \in Members}
           \cup {<<p[1], p[2]>> : p \in {q \in Members \X Members : q[1].key # q[2].key}}
\* a body that is not JSON (the page of an error)
NotJson == <<Member("<html>", LocalHost)>>
ResponseTexts == JsonTexts \cup {NotJson}

\* response_string.replace(host, "localhost"): every occurrence in the text
ReplaceText(text) ==
    [i \in 1..Len(text) |-> Member(text[i].key, Replace(text[i].val))]

\* json.loads: the object of a text, or ValueError
json_loads(text) ==
    IF text = NotJson
    THEN [kind |-> "raise", exc |-> Exc("ValueError", "No JSON object could be decoded"),
          value |-> <<>>]
    ELSE [kind |-> "return", exc |-> NoExc, value |-> text]

\* keys the checker's filter removes from a response
StrippedKeys == {"links"}
IsKept(m) == m.key \notin StrippedKeys
\* response_checker.filter
filter(doc) == SelectSeq(doc, IsKept)

\* utils.order_response: the members in the order of their keys
KeyOrder == <<"journeys", "links">>
RECURSIVE OrderFrom(_, _)
OrderFrom(doc, i) ==
    IF i > Len(KeyOrder) THEN <<>>
    ELSE LET IsKey(m) == m.key = KeyOrder[i]
         IN  SelectSeq(doc, IsKey) \o OrderFrom(doc, i + 1)
order_response(doc) == OrderFrom(doc, 1)

\* equality of two JSON objects: same members, in any order
SameObject(a, b) == SeqToSet(a) = SeqToSet(b)

\* response_checker.compare: AssertionError when the two differ
compare(filtered_response, filtered_reference) ==
    IF SameObject(filtered_response, filtered_reference) THEN Return
    ELSE Raise("AssertionError", "response differs from reference")

\* the query a test function sends, built on config["URL_JORMUN"]
HttpQuery == JormunHost

\* the files of a test function: its reference of each call, and the two
\* artifacts of each call in the output directory
Calls == 1..MaxCalls
FileKinds == {"reference", "resp", "ref"}
Paths == {[kind |-> k, call |-> n] : k \in FileKinds, n \in Calls}
\* common_fixture.get_reference_file_path: one reference per call ordinal
get_reference_file_path(nb_call) == [kind |-> "reference", call |-> nb_call]
\* {output_dir_path}/{filename_prefix}_resp.json
response_filepath_over_reference(nb_call) == [kind |-> "reference", call |-> nb_call]
response_filepath(nb_call) == [kind |-> "resp", call |-> nb_call]
\* {output_dir_path}/{filename_prefix}_ref.json
output_reference_filepath(nb_call) == [kind |-> "ref", call |-> nb_call]

\* what a file holds: the three fields of a reference; a path with no file
\* holds Absent
FileOf(query, response, full_response) ==
    [query |-> query, response |-> response, full_response |-> full_response]
Absent == FileOf("", <<>>, NotJson)
isfile(fs, path) == fs[path] # Absent

\* write_full_response_to_file: the file written, or the exception raised
\* before the file is opened
reference_text(http_query, text) ==
    FileOf(Replace(http_query),
           order_response(filter(json_loads(text).value)),
           json_loads(ReplaceText(text)).value)
write_full_response_to_file(fs, http_query, text, filepath) ==
    IF json_loads(text).kind = "raise"
    THEN [files |-> fs, exc |-> json_loads(text).exc]
    ELSE [files |-> [fs EXCEPT ![filepath] = reference_text(http_query, text)],
          exc |-> NoExc]

\* create_reference: an existing file is never written over
create_reference_overwrite(fs, http_query, text, nb_call) ==
    write_full_response_to_file(fs, http_query, text, get_reference_file_path(nb_call))
create_reference(fs, http_query, text, nb_call) ==
    IF isfile(fs, get_reference_file_path(nb_call))
    THEN [files |-> fs, exc |-> Exc("AssertionError", "")]
    ELSE write_full_response_to_file(fs, http_query, text,
                                     get_reference_file_path(nb_call))

\* compare_with_ref up to checker.compare: the exception raised before the
\* comparison, else whether checker.compare raised (caught by the except clause)
compare_with_ref_assert_in_try(fs, text, nb_call) ==
    IF json_loads(text).kind = "raise"
    THEN [compared |-> FALSE, caught |-> FALSE, exc |-> json_loads(text).exc]
    ELSE IF ~isfile(fs, get_reference_file_path(nb_call))
    THEN [compared |-> FALSE, caught |-> TRUE,
          exc |-> Exc("AssertionError", "is not a file")]
    ELSE LET result == compare(filter(json_loads(text).value),
                               filter(fs[get_reference_file_path(nb_call)].full_response))
         IN  [compared |-> TRUE, caught |-> result.kind = "raise", exc |-> result.exc]
compare_with_ref(fs, text, nb_call) ==
    IF json_loads(text).kind = "raise"
    THEN [compared |-> FALSE, caught |-> FALSE, exc |-> json_loads(text).exc]
    ELSE IF ~isfile(fs, get_reference_file_path(nb_call))
    THEN [compared |-> FALSE, caught |-> FALSE,
          exc |-> Exc("AssertionError", "is not a file")]
    ELSE LET result == compare(filter(json_loads(text).value),
                               filter(fs[get_reference_file_path(nb_call)].full_response))
         IN  [compared |-> TRUE, caught |-> result.kind = "raise", exc |-> result.exc]

\* the except clause of compare_with_ref, in the order it runs
ExceptBlockRaiseEarly == <<"resp", "raise">>
ExceptBlock == <<"resp", "ref", "raise">>


\* no test process has run yet
CompareIdle ==
    /\ cpc = "ended"
    /\ create_ref = FALSE
    /\ nb_call_to_request_compare = 0
    /\ files = [p \in Paths |-> Absent]
    /\ output_dir = FALSE
    /\ response_string = <<>>
    /\ raised = NoExc
    /\ http_gets = 0
    /\ compared = 0
    /\ blk_idx = 0

(* ------------------------------------------------------------------ *)
(* docker_orchestrator: the waits on the containers                     *)
(* ------------------------------------------------------------------ *)

\* @retry(stop_max_delay=3000000, wait_fixed=2000) of the module-level waits
DockerStopMaxDelay == 3000000
DockerWaitFixed == 2000
\* @retry(stop_max_delay=2000000, wait_fixed=2000) of
\* wait_for_instance_configuration_status
StatusStopMaxDelay == 2000000
StatusWaitFixed == 2000

COMPOSE_PROJECT_NAME == "navitia"

\* the containers the runtime may hold, and the texts of interest each name
\* contains
ContainerNames == {"navitia_instances_configurator_1", "navitia_kraken-fr-idf_1",
                   "navitia_kraken-fr-auv_1", "navitia_tyr_worker_1"}
Contains(name) ==
    CASE name = "navitia_instances_configurator_1" ->
            {COMPOSE_PROJECT_NAME, "instances_configurator"}
      [] name = "navitia_kraken-fr-idf_1" -> {COMPOSE_PROJECT_NAME, "kraken-fr-idf"}
      [] name = "navitia_kraken-fr-auv_1" -> {COMPOSE_PROJECT_NAME, "kraken-fr-auv"}
      [] name = "navitia_tyr_worker_1" -> {COMPOSE_PROJECT_NAME, "tyr_worker"}
      [] OTHER -> {}

\* status of a container; "absent" when the runtime holds no such container
ContainerStatuses == {"absent", "created", "running", "exited"}

\* docker.DockerClient(version="auto").containers.list(all): the containers
\* held, or the exception of a runtime that cannot be reached
containers_list(reachable, fl) ==
    IF ~reachable
    THEN [kind |-> "raise", exc |-> Exc("DockerException", "runtime unreachable"),
          value |-> {}]
    ELSE [kind |-> "return", exc |-> NoExc,
          value |-> {n \in ContainerNames : fl[n] # "absent"}]

get_compose_containers_list(reachable, fl) ==
    LET all_containers_list == containers_list(reachable, fl)
    IN  [all_containers_list EXCEPT
            !.value = {x \in @ : COMPOSE_PROJECT_NAME \in Contains(x)}]

\* next((x for x in docker_list if text in x.name), None)
NoContainer == "None"
FirstNamed(docker_list, text) ==
    IF \E x \in docker_list : text \in Contains(x)
    THEN CHOOSE x \in docker_list : text \in Contains(x)
    ELSE NoContainer

\* wait_for_instance_configuration_status(status): one attempt
wait_for_instance_configuration_status_strict(reachable, fl, status) ==
    LET docker_list == get_compose_containers_list(reachable, fl)
        instance_config_container == FirstNamed(docker_list.value, "instances_configurator")
    IN  IF docker_list.kind = "raise" THEN Raise(docker_list.exc.type, docker_list.exc.msg)
        ELSE IF instance_config_container = NoContainer
        THEN Raise("Exception", "No 'instances_configurator' container found")
        ELSE IF fl[instance_config_container] # status
        THEN Raise("Exception", "instances_configurator status")
        ELSE Return
wait_for_instance_configuration_status(reachable, fl, status) ==
    LET docker_list == get_compose_containers_list(reachable, fl)
        instance_config_container == FirstNamed(docker_list.value, "instances_configurator")
    IN  IF docker_list.kind = "raise" THEN Raise(docker_list.exc.type, docker_list.exc.msg)
        ELSE IF instance_config_container # NoContainer
                /\ fl[instance_config_container] # status
        THEN Raise("Exception", "instances_configurator status")
        ELSE Return

\* wait_for_kraken_stop(kraken_name): one attempt
wait_for_kraken_stop(reachable, fl, kraken_name) ==
    LET docker_list == get_compose_containers_list(reachable, fl)
        kraken_container == FirstNamed(docker_list.value, kraken_name)
    IN  IF docker_list.kind = "raise" THEN Raise(docker_list.exc.type, docker_list.exc.msg)
        ELSE IF kraken_container # NoContainer /\ fl[kraken_container] = "running"
        THEN Raise("Exception", "Kraken still running...")
        ELSE Return

\* wait_for_docker_removal.wait_for_kraken_removal: one attempt
wait_for_kraken_removal(reachable, fl, kraken_name) ==
    LET docker_list == get_compose_containers_list(reachable, fl)
    IN  IF docker_list.kind = "raise" THEN Raise(docker_list.exc.type, docker_list.exc.msg)
        ELSE IF FirstNamed(docker_list.value, kraken_name) # NoContainer
        THEN Raise("Exception", "Kraken not yet removed...")
        ELSE Return

\* docker_clean.wait_for_containers_stop: one attempt
wait_for_containers_stop(reachable, fl) ==
    LET docker_list == get_compose_containers_list(reachable, fl)
    IN  IF docker_list.kind = "raise" THEN Raise(docker_list.exc.type, docker_list.exc.msg)
        ELSE IF docker_list.value # {}
        THEN Raise("Exception", "Containers still running...")
        ELSE Return

\* wait_for_cities_db: one attempt; status_code is that of GET /v0/cities/status
CitiesStatusCodes == {200, 503}
wait_for_cities_db(transport, status_code) ==
    IF transport # "ok" THEN Raise(transport, "GET /v0/cities/status")
    ELSE IF status_code # 200 THEN Raise("Exception", "Cities not reachable")
    ELSE Return

\* a retry-wrapped wait of docker_orchestrator: no retry_on_exception is given
DockerRetrying(w, result, dur) ==
    Retrying(w, result, dur, always_reject(result.exc))

\* the polls of a wait that see the same answer, taken together: up to n turns
\* of the loop, fewer when the wait ends
RECURSIVE Polls(_, _, _)
Polls(w, result, n) ==
    IF n = 0 \/ w.status # "calling" THEN w
    ELSE IF n = 1 THEN DockerRetrying(w, result, 0)
    ELSE CHOOSE after \in {Polls(half, result, n - (n \div 2)) :
                               half \in {Polls(w, result, n \div 2)}} : TRUE

\* instances of artemis_custom_instances_list.yml that launch_coverages runs
Coverages == <<"fr-idf", "fr-auv">>
KrakenName(instance_name) == "kraken-" \o instance_name

\* fleet and script before docker_orchestrator.py runs
DockerIdle ==
    /\ dpc = "main"
    /\ fleet = [n \in ContainerNames |-> "absent"]
    /\ dwait = NoWait
    /\ inner = NoWait
    /\ op_time = 0
    /\ cov_idx = 0
    /\ instance_file = FALSE
    /\ has_failures = FALSE
    /\ pytest_exit = 0
    /\ derror = NoExc

\* neither the jobs of the staged types nor the data directories are followed
EnvIdle ==
    /\ tyr_jobs = <<>>
    /\ kraken_data = {}
    /\ local_dirs = {}
    /\ exec_runs = <<>>

\* positions of update_data_by_dataset from the staging loop to the reload wait
StagedPositions == {"stage", "jobs_next", "jobs", "reload"}

LoaderInit ==
    /\ pc = "idle"
    /\ dataset_binarized = <<>>
    /\ todo = <<>>
    /\ data_set = NoDataSet
    /\ wait = NoWait
    /\ error = NoExc
    /\ containers = <<>>
    /\ last_reload_time = NoLoadTime
    /\ current_utc_datetime = 0
    /\ stage_idx = 0
    /\ dataset_types_to_process = <<>>
    /\ job_idx = 0
    /\ jobs_resp = <<>>
    /\ new_data_loaded = NoLoadTime
    /\ last_load_at = 1
    /\ pushed = <<>>
    /\ steps_run = NoSteps
    /\ CompareIdle
    /\ DockerIdle
    /\ EnvIdle

\* the locals of update_data_by_dataset, as they are before it runs
ResetLocals ==
    /\ containers' = <<>>
    /\ last_reload_time' = NoLoadTime
    /\ current_utc_datetime' = 0
    /\ stage_idx' = 0
    /\ dataset_types_to_process' = <<>>
    /\ job_idx' = 0
    /\ jobs_resp' = <<>>
    /\ new_data_loaded' = NoLoadTime
    /\ pushed' = <<>>

KeepLocals ==
    UNCHANGED <<containers, last_reload_time, current_utc_datetime, stage_idx,
                dataset_types_to_process, job_idx, jobs_resp, new_data_loaded, pushed>>

\* an exception leaves manage_data: the class fixture ends in error
PropagateMarked(exc) ==
    /\ pc' = "idle"
    /\ error' = exc
    /\ todo' = <<>>
    /\ dataset_binarized' = Append(dataset_binarized, data_set.name)
    /\ UNCHANGED data_set
Propagate(exc) ==
    /\ pc' = "idle"
    /\ error' = exc
    /\ todo' = <<>>
    /\ UNCHANGED <<dataset_binarized, data_set>>

(* ------------------------------------------------------------------ *)
(* manage_data                                                          *)
(* ------------------------------------------------------------------ *)

\* skip_bina: return before looking at any dataset
ManageDataSkipBina ==
    /\ UNCHANGED <<compareVars, dockerVars, envVars>>
    /\ pc = "idle"
    /\ error' = NoExc
    /\ wait' = NoWait
    /\ steps_run' = NoSteps
    /\ data_set' = NoDataSet
    /\ ResetLocals
    /\ UNCHANGED <<pc, dataset_binarized, todo, last_load_at>>

\* the class fixture starts for a test class: for data_set in cls.data_sets
ManageDataStart ==
    /\ UNCHANGED <<compareVars, dockerVars, envVars>>
    /\ pc = "idle"
    /\ \E cls \in TestClasses : todo' = cls
    /\ pc' = "next"
    /\ error' = NoExc
    /\ wait' = NoWait
    /\ steps_run' = NoSteps
    /\ data_set' = NoDataSet
    /\ ResetLocals
    /\ UNCHANGED <<dataset_binarized, last_load_at>>

\* if data_set.name in cls.dataset_binarized
IsBinarizedLast(ds, binarized) ==
    binarized # <<>> /\ ds.name = binarized[Len(binarized)]
IsBinarized(ds, binarized) == ds.name \in SeqToSet(binarized)

\* the loop is over: manage_data returns
ManageDataReturn ==
    /\ UNCHANGED <<compareVars, dockerVars, envVars>>
    /\ pc = "next"
    /\ todo = <<>>
    /\ pc' = "idle"
    /\ UNCHANGED <<dataset_binarized, todo, data_set, wait, error, last_load_at, steps_run>>
    /\ KeepLocals

\* the dataset was binarized already: continue
ManageDataSkipLoaded ==
    /\ UNCHANGED <<compareVars, dockerVars, envVars>>
    /\ pc = "next"
    /\ todo # <<>>
    /\ IsBinarized(Head(todo), dataset_binarized)
    /\ todo' = Tail(todo)
    /\ UNCHANGED <<pc, dataset_binarized, data_set, wait, error, last_load_at, steps_run>>
    /\ KeepLocals

\* otherwise load it: update_instance_db starts with wait_for_tyr_instance_scan
ManageDataLoad ==
    /\ UNCHANGED <<compareVars, dockerVars, envVars>>
    /\ pc = "next"
    /\ todo # <<>>
    /\ ~IsBinarized(Head(todo), dataset_binarized)
    /\ data_set' = Head(todo)
    /\ pc' = "scan"
    /\ wait' = NewWait("wait_for_tyr_instance_scan", TyrScanStopMaxDelay, TyrScanWaitFixed)
    /\ steps_run' = NoSteps
    /\ ResetLocals
    /\ UNCHANGED <<dataset_binarized, todo, error, last_load_at>>

(* ------------------------------------------------------------------ *)
(* update_instance_db                                                   *)
(* ------------------------------------------------------------------ *)

\* time one GET of the instance registry may take
ScanDurations == {0, 30000}

\* one attempt of wait_for_tyr_instance_scan and the decorator's decision
TyrInstanceScanAttemptUnchecked ==
    /\ UNCHANGED <<compareVars, dockerVars, envVars>>
    /\ pc = "scan"
    /\ \E http \in HttpOutcomes, instances \in SUBSET DataSetNames, dur \in ScanDurations :
         LET w == RetryingCall(wait,
                     wait_for_tyr_instance_scan(http, instances, data_set.name), dur)
         IN  /\ wait' = w
             /\ CASE w.status = "calling" ->
                       /\ UNCHANGED <<pc, error, todo, dataset_binarized, data_set>>
                  [] OTHER ->
                       /\ pc' = "put"
                       /\ UNCHANGED <<error, todo, dataset_binarized, data_set>>
    /\ steps_run' = Ran("registry_poll")
    /\ UNCHANGED last_load_at
    /\ KeepLocals
TyrInstanceScanAttempt ==
    /\ UNCHANGED <<compareVars, dockerVars, envVars>>
    /\ pc = "scan"
    /\ \E http \in HttpOutcomes, instances \in SUBSET DataSetNames, dur \in ScanDurations :
         LET w == RetryingCall(wait,
                     wait_for_tyr_instance_scan(http, instances, data_set.name), dur)
         IN  /\ wait' = w
             /\ CASE w.status = "calling" ->
                       /\ UNCHANGED <<pc, error, todo, dataset_binarized, data_set>>
                  [] w.status = "returned" ->
                       /\ pc' = "put"
                       /\ UNCHANGED <<error, todo, dataset_binarized, data_set>>
                  [] OTHER -> Propagate(w.exc)
    /\ steps_run' = Ran("registry_poll")
    /\ UNCHANGED last_load_at
    /\ KeepLocals

\* manage_data: the call that follows update_instance_db
AfterUpdateInstanceVerify == "check"
AfterUpdateInstance == "remove"

\* requests.put of the default values, then raise_for_status
UpdateInstancePut ==
    /\ UNCHANGED <<compareVars, dockerVars, envVars>>
    /\ pc = "put"
    /\ \E http \in HttpOutcomes :
         IF http = "ok"
         THEN /\ pc' = AfterUpdateInstance
              /\ UNCHANGED <<error, todo, dataset_binarized, data_set>>
         ELSE Propagate(Exc(http, "instance update"))
    /\ steps_run' = Ran("config_push")
    /\ wait' = NoWait
    /\ UNCHANGED last_load_at
    /\ KeepLocals

(* ------------------------------------------------------------------ *)
(* remove_data_by_dataset                                               *)
(* ------------------------------------------------------------------ *)

\* names of running containers the runtime may list, and the text
\* "tyr_worker" in x.name
RunningNames == {"jormungandr", "tyr_worker_1", "tyr_worker_2"}
IsTyrWorker(x) == x \in {"tyr_worker", "tyr_worker_1", "tyr_worker_2"}

\* containers.list() as it may answer: up to two of the names, in any order
RunningLists ==
    {<<>>} \cup {<<x>> : x \in RunningNames}
           \cup {l \in {<<x, y>> : x \in RunningNames, y \in RunningNames} : l[1] # l[2]}
\* the two answers that differ for the loader: no worker, one worker
WorkerLists == {<<>>, <<"tyr_worker">>}

\* [x for x in ...containers.list() if "tyr_worker" in x.name]
tyr_worker_containers(listing) == SelectSeq(listing, IsTyrWorker)

\* remove_data_by_dataset with containers.list() answering one of Lists; the
\* command is entered in exec_runs when `logged` is set
RemoveDataWhereAll(Lists, logged) ==
    /\ UNCHANGED <<compareVars, dockerVars, tyr_jobs, kraken_data, local_dirs>>
    /\ pc = "remove"
    /\ \E reachable \in BOOLEAN, listing \in Lists :
         IF ~reachable
         THEN /\ Propagate(Exc("DockerException", "runtime unreachable"))
              /\ UNCHANGED <<steps_run, containers, exec_runs>>
         ELSE /\ containers' = tyr_worker_containers(listing)
              /\ pc' = "open"
              /\ UNCHANGED <<error, todo, dataset_binarized, data_set>>
              /\ IF containers' = <<>>
                 THEN UNCHANGED <<steps_run, exec_runs>>
                 ELSE /\ steps_run' = Ran("exec")
                      /\ exec_runs' =
                            IF logged
                            THEN exec_runs \o
                                   [i \in DOMAIN containers' |->
                                      [container |-> containers'[i], cmd |-> "rm",
                                       path |-> data_set.name]]
                            ELSE exec_runs
    /\ UNCHANGED <<wait, last_load_at, last_reload_time, current_utc_datetime, stage_idx,
                   dataset_types_to_process, job_idx, jobs_resp, new_data_loaded, pushed>>
RemoveDataWhere(Lists, logged) ==
    /\ UNCHANGED <<compareVars, dockerVars, tyr_jobs, kraken_data, local_dirs>>
    /\ pc = "remove"
    /\ \E reachable \in BOOLEAN, listing \in Lists :
         IF ~reachable
         THEN /\ Propagate(Exc("DockerException", "runtime unreachable"))
              /\ UNCHANGED <<steps_run, containers, exec_runs>>
         ELSE /\ containers' = tyr_worker_containers(listing)
              /\ pc' = "open"
              /\ UNCHANGED <<error, todo, dataset_binarized, data_set>>
              /\ IF containers' = <<>>
                 THEN UNCHANGED <<steps_run, exec_runs>>
                 ELSE /\ steps_run' = Ran("exec")
                      /\ exec_runs' =
                            IF logged
                            THEN Append(exec_runs,
                                        [container |-> containers'[1], cmd |-> "rm",
                                         path |-> data_set.name])
                            ELSE exec_runs
    /\ UNCHANGED <<wait, last_load_at, last_reload_time, current_utc_datetime, stage_idx,
                   dataset_types_to_process, job_idx, jobs_resp, new_data_loaded, pushed>>

RemoveDataByDataset == RemoveDataWhere(WorkerLists, FALSE)

(* ------------------------------------------------------------------ *)
(* update_data_by_dataset                                               *)
(* ------------------------------------------------------------------ *)

\* list the tyr_worker containers and mkdir the input path in the first one
UpdateDataOpen ==
    /\ UNCHANGED <<compareVars, dockerVars, envVars>>
    /\ pc = "open"
    /\ \E docker \in DockerListings :
         CASE docker = "unreachable" ->
                /\ Propagate(Exc("DockerException", "runtime unreachable"))
                /\ UNCHANGED <<steps_run, containers>>
           [] docker = "none" ->
                /\ pc' = "baseline"
                /\ containers' = <<>>
                /\ UNCHANGED <<error, todo, dataset_binarized, data_set, steps_run>>
           [] OTHER ->
                /\ pc' = "baseline"
                /\ containers' = <<"tyr_worker">>
                /\ steps_run' = Ran("exec")
                /\ UNCHANGED <<error, todo, dataset_binarized, data_set>>
    /\ UNCHANGED <<wait, last_load_at, last_reload_time, current_utc_datetime, stage_idx,
                   dataset_types_to_process, job_idx, jobs_resp, new_data_loaded, pushed>>

\* last_reload_time = get_last_coverage_loaded_time(...), then
\* current_utc_datetime = utcnow(), both before the staging loop
CaptureBaselines ==
    /\ UNCHANGED <<compareVars, dockerVars, envVars>>
    /\ pc = "baseline"
    /\ \E transport \in Transports :
         IF transport # "ok"
         THEN /\ Propagate(Exc(transport, "coverage status request"))
              /\ UNCHANGED <<last_reload_time, current_utc_datetime, stage_idx>>
         ELSE /\ \E has_field \in BOOLEAN :
                   last_reload_time' = get_last_coverage_loaded_time(has_field, last_load_at)
              /\ \E now \in Stamps : current_utc_datetime' = now
              /\ stage_idx' = 1
              /\ pc' = "stage"
              /\ UNCHANGED <<dataset_binarized, todo, data_set, error>>
    /\ UNCHANGED <<wait, containers, job_idx, dataset_types_to_process,
                   jobs_resp, new_data_loaded, last_load_at, pushed, steps_run>>

\* put_data: TRUE when the category's directory exists and its archive was
\* put in containers[0]; containers[0] raises IndexError on an empty list
PutDataWhereUnpushed(on_disk) ==
    /\ UNCHANGED <<compareVars, dockerVars, envVars>>
    /\ pc = "stage"
    /\ stage_idx <= Len(data_to_process)
    /\ LET cat == data_to_process[stage_idx]
       IN  \E path_exists \in (IF on_disk THEN {cat.files \in local_dirs} ELSE BOOLEAN) :
             IF ~path_exists
             THEN /\ stage_idx' = stage_idx + 1
                  /\ UNCHANGED <<pc, error, todo, dataset_binarized, data_set, pushed,
                                 dataset_types_to_process, steps_run>>
             ELSE IF containers = <<>>
             THEN /\ dataset_types_to_process' = Append(dataset_types_to_process, cat.type)
                  /\ stage_idx' = stage_idx + 1
                  /\ UNCHANGED <<pc, error, todo, dataset_binarized, data_set, pushed,
                                 steps_run>>
             ELSE /\ pushed' = Append(pushed, cat.files)
                  /\ dataset_types_to_process' = Append(dataset_types_to_process, cat.type)
                  /\ stage_idx' = stage_idx + 1
                  /\ steps_run' = Ran("put_archive")
                  /\ UNCHANGED <<pc, error, todo, dataset_binarized, data_set>>
    /\ UNCHANGED <<wait, containers, last_reload_time, current_utc_datetime, job_idx,
                   jobs_resp, new_data_loaded, last_load_at>>
PutDataWhere(on_disk) ==
    /\ UNCHANGED <<compareVars, dockerVars, envVars>>
    /\ pc = "stage"
    /\ stage_idx <= Len(data_to_process)
    /\ LET cat == data_to_process[stage_idx]
       IN  \E path_exists \in (IF on_disk THEN {cat.files \in local_dirs} ELSE BOOLEAN) :
             IF ~path_exists
             THEN /\ stage_idx' = stage_idx + 1
                  /\ UNCHANGED <<pc, error, todo, dataset_binarized, data_set, pushed,
                                 dataset_types_to_process, steps_run>>
             ELSE IF containers = <<>>
             THEN /\ Propagate(Exc("IndexError", "list index out of range"))
                  /\ UNCHANGED <<stage_idx, pushed, dataset_types_to_process, steps_run>>
             ELSE /\ pushed' = Append(pushed, cat.files)
                  /\ dataset_types_to_process' = Append(dataset_types_to_process, cat.type)
                  /\ stage_idx' = stage_idx + 1
                  /\ steps_run' = Ran("put_archive")
                  /\ UNCHANGED <<pc, error, todo, dataset_binarized, data_set>>
    /\ UNCHANGED <<wait, containers, last_reload_time, current_utc_datetime, job_idx,
                   jobs_resp, new_data_loaded, last_load_at>>

\* put_data with os.path.exists(path) answering either way
PutData == PutDataWhere(FALSE)

\* the staging loop is over: for dataset_type in dataset_types_to_process
StagingDoneReturnsEarly ==
    /\ UNCHANGED <<compareVars, dockerVars, envVars>>
    /\ pc = "stage"
    /\ stage_idx > Len(data_to_process)
    /\ job_idx' = 1
    /\ pc' = IF dataset_types_to_process = <<>> THEN "check" ELSE "jobs_next"
    /\ UNCHANGED <<dataset_binarized, todo, data_set, wait, error, containers,
                   last_reload_time, current_utc_datetime, stage_idx,
                   dataset_types_to_process, jobs_resp, new_data_loaded, last_load_at,
                   pushed, steps_run>>
StagingDone ==
    /\ UNCHANGED <<compareVars, dockerVars, envVars>>
    /\ pc = "stage"
    /\ stage_idx > Len(data_to_process)
    /\ job_idx' = 1
    /\ pc' = "jobs_next"
    /\ UNCHANGED <<dataset_binarized, todo, data_set, wait, error, containers,
                   last_reload_time, current_utc_datetime, stage_idx,
                   dataset_types_to_process, jobs_resp, new_data_loaded, last_load_at,
                   pushed, steps_run>>

DataWait(name) ==
    NewWait(name, data_set.reload_timeout, data_set.fixed_wait)

\* call wait_for_data_processing for the next staged dataset type
JobWaitStart ==
    /\ UNCHANGED <<compareVars, dockerVars, envVars>>
    /\ pc = "jobs_next"
    /\ job_idx <= Len(dataset_types_to_process)
    /\ wait' = DataWait("wait_for_data_processing")
    /\ pc' = "jobs"
    /\ jobs_resp' = <<>>
    /\ UNCHANGED <<dataset_binarized, todo, data_set, error, last_load_at, steps_run,
                   containers, last_reload_time, current_utc_datetime, stage_idx,
                   dataset_types_to_process, job_idx, new_data_loaded, pushed>>

\* every staged type is done: call wait_for_kraken_reload with the baseline
ReloadWaitStartEarly ==
    /\ UNCHANGED <<compareVars, dockerVars, envVars>>
    /\ pc = "jobs_next"
    /\ wait' = DataWait("wait_for_kraken_reload")
    /\ pc' = "reload"
    /\ jobs_resp' = <<>>
    /\ UNCHANGED <<dataset_binarized, todo, data_set, error, last_load_at, steps_run,
                   containers, last_reload_time, current_utc_datetime, stage_idx,
                   dataset_types_to_process, job_idx, new_data_loaded, pushed>>
ReloadWaitStart ==
    /\ UNCHANGED <<compareVars, dockerVars, envVars>>
    /\ pc = "jobs_next"
    /\ job_idx > Len(dataset_types_to_process)
    /\ wait' = DataWait("wait_for_kraken_reload")
    /\ pc' = "reload"
    /\ jobs_resp' = <<>>
    /\ UNCHANGED <<dataset_binarized, todo, data_set, error, last_load_at, steps_run,
                   containers, last_reload_time, current_utc_datetime, stage_idx,
                   dataset_types_to_process, job_idx, new_data_loaded, pushed>>

\* time one poll of a dataset wait may take
PollDurations == {0, 1}

\* one attempt of wait_for_data_processing and the decorator's decision, the
\* jobs endpoint answering with a list of JL; the list polled stays in
\* jobs_resp after the attempt when `keep` is set
DataProcessingAttempt(JL, keep) ==
    /\ UNCHANGED <<compareVars, dockerVars, envVars>>
    /\ pc = "jobs"
    /\ \E http \in HttpOutcomes, jl \in JL, dur \in PollDurations :
         LET w == RetryingCall(wait,
                     wait_for_data_processing(http, jl,
                         dataset_types_to_process[job_idx], current_utc_datetime), dur)
         IN  /\ wait' = w
             /\ jobs_resp' = IF keep /\ http = "ok" THEN jl ELSE <<>>
             /\ CASE w.status = "calling" ->
                       /\ UNCHANGED <<pc, error, todo, dataset_binarized, data_set, job_idx>>
                  [] w.status = "returned" ->
                       /\ pc' = "jobs_next"
                       /\ job_idx' = job_idx + 1
                       /\ UNCHANGED <<error, todo, dataset_binarized, data_set>>
                  [] OTHER ->
                       /\ Propagate(w.exc)
                       /\ UNCHANGED job_idx
    /\ steps_run' = Ran("job_wait")
    /\ UNCHANGED <<containers, last_reload_time, current_utc_datetime, stage_idx,
                   dataset_types_to_process, new_data_loaded, last_load_at, pushed>>

\* one attempt of wait_for_kraken_reload and the decorator's decision
KrakenReloadAttempt ==
    /\ UNCHANGED <<compareVars, dockerVars, envVars>>
    /\ pc = "reload"
    /\ \E transport \in Transports, has_field \in BOOLEAN, dur \in PollDurations :
         LET seen == get_last_coverage_loaded_time(has_field, last_load_at)
             w == RetryingCall(wait,
                     wait_for_kraken_reload(transport, last_reload_time, seen), dur)
         IN  /\ wait' = w
             /\ new_data_loaded' = IF transport = "ok" THEN seen ELSE new_data_loaded
             /\ CASE w.status = "calling" ->
                       /\ UNCHANGED <<pc, error, todo, dataset_binarized, data_set>>
                  [] w.status = "returned" ->
                       /\ pc' = "check"
                       /\ UNCHANGED <<error, todo, dataset_binarized, data_set>>
                  [] OTHER -> Propagate(w.exc)
    /\ steps_run' = Ran("reload_wait")
    /\ UNCHANGED <<containers, last_reload_time, current_utc_datetime, stage_idx,
                   dataset_types_to_process, job_idx, jobs_resp, last_load_at, pushed>>

(* ------------------------------------------------------------------ *)
(* check_values                                                         *)
(* ------------------------------------------------------------------ *)

\* instance_default_values.default_values and what Tyr may report for them
DefaultKeys == {"min_bike", "max_walking"}
default_values == [k \in DefaultKeys |-> "artemis"]
TyrParameters ==
    UNION {[keys -> {"artemis", "other"}] : keys \in SUBSET DefaultKeys}

\* check_values: status code 200, coverage running, no diff with the defaults
check_values(status_code, cov_status, params) ==
    IF status_code # 200
    THEN Raise("Exception", "Error while getting coverage status")
    ELSE IF cov_status # "running"
    THEN Raise("Exception", "Coverage NOT RUNNING")
    ELSE LET diffs == {k \in DefaultKeys :
                          k \notin DOMAIN params \/ params[k] # default_values[k]}
         IN  IF diffs # {} THEN Raise("Exception", "Diff(s) in parameters") ELSE Return

\* check_values, then cls.dataset_binarized.append(data_set.name)
CheckValuesAndMark ==
    /\ UNCHANGED <<compareVars, dockerVars, envVars>>
    /\ pc = "check"
    /\ \E status_code \in {200, 503}, cov_status \in {"running", "loading"},
          params \in TyrParameters :
         LET r == check_values(status_code, cov_status, params)
         IN  IF r.kind = "return"
             THEN /\ dataset_binarized' = Append(dataset_binarized, data_set.name)
                  /\ todo' = Tail(todo)
                  /\ pc' = "next"
                  /\ UNCHANGED <<error, data_set>>
             ELSE Propagate(r.exc)
    /\ steps_run' = Ran("config_check")
    /\ wait' = NoWait
    /\ ResetLocals
    /\ UNCHANGED last_load_at

(* ------------------------------------------------------------------ *)
(* The environment                                                      *)
(* ------------------------------------------------------------------ *)

\* the routing engine loads data: last_load_at changes
KrakenLoads ==
    /\ UNCHANGED <<compareVars, dockerVars, envVars>>
    /\ pc \in {"stage", "jobs_next", "jobs", "reload"}
    /\ last_load_at < 1 + MaxLoads
    /\ last_load_at' = last_load_at + 1
    /\ UNCHANGED <<pc, dataset_binarized, todo, data_set, wait, error, steps_run>>
    /\ KeepLocals

(* ------------------------------------------------------------------ *)
(* Test functions: request_compare                                      *)
(* ------------------------------------------------------------------ *)

CallLocals == <<response_string, http_gets, compared, blk_idx>>

\* the test function ends with exception exc
TestRaises(exc) ==
    /\ cpc' = "ended"
    /\ raised' = exc

\* a test process starts: importing artemis removes the output directory; the
\* instance of the test class is new and before_each_test has not yet given
\* nb_call_to_request_compare a value
ProcessStart ==
    /\ cpc = "ended"
    /\ cpc' = "session"
    /\ files' = [p \in Paths |-> IF p.kind = "reference" THEN files[p] ELSE Absent]
    /\ output_dir' = FALSE
    /\ raised' = NoExc
    /\ nb_call_to_request_compare' \in 0..MaxCalls
    /\ response_string' = <<>>
    /\ http_gets' = 0
    /\ compared' = 0
    /\ blk_idx' = 0
    /\ UNCHANGED create_ref
    /\ UNCHANGED <<loaderVars, dockerVars, envVars>>

\* before_each_test, then the test function starts
BeforeEachTestStale ==
    /\ cpc = "session"
    /\ UNCHANGED nb_call_to_request_compare
    /\ create_ref' \in BOOLEAN
    /\ cpc' = "test"
    /\ UNCHANGED <<files, output_dir, raised, CallLocals>>
    /\ UNCHANGED <<loaderVars, dockerVars, envVars>>
BeforeEachTest ==
    /\ cpc = "session"
    /\ nb_call_to_request_compare' = 0
    /\ create_ref' \in BOOLEAN
    /\ cpc' = "test"
    /\ UNCHANGED <<files, output_dir, raised, CallLocals>>
    /\ UNCHANGED <<loaderVars, dockerVars, envVars>>

\* request_compare up to the response: count the call, send the query
RequestCompare ==
    /\ cpc = "test"
    /\ nb_call_to_request_compare < MaxCalls
    /\ nb_call_to_request_compare' = nb_call_to_request_compare + 1
    /\ http_gets' = 1
    /\ compared' = 0
    /\ blk_idx' = 0
    /\ \E transport \in Transports :
          IF transport # "ok"
          THEN /\ TestRaises(Exc(transport, "GET query"))
               /\ response_string' = <<>>
          ELSE /\ response_string' \in ResponseTexts
               /\ cpc' = IF create_ref THEN "create" ELSE "compare"
               /\ UNCHANGED raised
    /\ UNCHANGED <<create_ref, files, output_dir>>
    /\ UNCHANGED <<loaderVars, dockerVars, envVars>>

\* request_compare in create mode
CreateReference ==
    /\ cpc = "create"
    /\ LET done == create_reference(files, HttpQuery, response_string,
                                    nb_call_to_request_compare)
       IN  /\ files' = done.files
           /\ IF done.exc # NoExc THEN TestRaises(done.exc)
              ELSE cpc' = "test" /\ UNCHANGED raised
    /\ UNCHANGED <<create_ref, nb_call_to_request_compare, output_dir, CallLocals>>
    /\ UNCHANGED <<loaderVars, dockerVars, envVars>>

\* request_compare in compare mode, up to the outcome of checker.compare
CompareWithRef ==
    /\ cpc = "compare"
    /\ LET done == compare_with_ref(files, response_string,
                                    nb_call_to_request_compare)
       IN  /\ compared' = IF done.compared THEN compared + 1 ELSE compared
           /\ IF done.caught
              THEN cpc' = "except" /\ blk_idx' = 1 /\ UNCHANGED raised
              ELSE IF done.exc # NoExc
              THEN TestRaises(done.exc) /\ UNCHANGED blk_idx
              ELSE cpc' = "test" /\ UNCHANGED <<raised, blk_idx>>
    /\ UNCHANGED <<create_ref, nb_call_to_request_compare, files, output_dir,
                   response_string, http_gets>>
    /\ UNCHANGED <<loaderVars, dockerVars, envVars>>

\* except clause: create the output directory, write the response artifact
WriteResponseFile ==
    /\ cpc = "except"
    /\ ExceptBlock[blk_idx] = "resp"
    /\ output_dir' = TRUE
    /\ files' = write_full_response_to_file(
                    files, HttpQuery, response_string,
                    response_filepath(nb_call_to_request_compare)).files
    /\ blk_idx' = blk_idx + 1
    /\ UNCHANGED <<cpc, create_ref, nb_call_to_request_compare, response_string,
                   raised, http_gets, compared>>
    /\ UNCHANGED <<loaderVars, dockerVars, envVars>>

\* except clause: write raw_reference, the reference as read, next to it
WriteReferenceFile ==
    /\ cpc = "except"
    /\ ExceptBlock[blk_idx] = "ref"
    /\ files' = [files EXCEPT
                    ![output_reference_filepath(nb_call_to_request_compare)] =
                        files[get_reference_file_path(nb_call_to_request_compare)]]
    /\ blk_idx' = blk_idx + 1
    /\ UNCHANGED <<cpc, create_ref, nb_call_to_request_compare, output_dir,
                   response_string, raised, http_gets, compared>>
    /\ UNCHANGED <<loaderVars, dockerVars, envVars>>

\* except clause: raise the AssertionError of checker.compare again
ReRaise ==
    /\ cpc = "except"
    /\ ExceptBlock[blk_idx] = "raise"
    /\ TestRaises(compare_with_ref(files, response_string,
                                   nb_call_to_request_compare).exc)
    /\ UNCHANGED <<create_ref, nb_call_to_request_compare, files, output_dir,
                   CallLocals>>
    /\ UNCHANGED <<loaderVars, dockerVars, envVars>>

\* the test function returns
TestReturns ==
    /\ cpc = "test"
    /\ cpc' = "ended"
    /\ raised' = NoExc
    /\ UNCHANGED <<create_ref, nb_call_to_request_compare, files, output_dir,
                   CallLocals>>
    /\ UNCHANGED <<loaderVars, dockerVars, envVars>>

(* ------------------------------------------------------------------ *)
(* Specification of the test functions                                  *)
(* ------------------------------------------------------------------ *)

CompareInit == LoaderInit

CompareNext ==
    \/ ProcessStart
    \/ BeforeEachTest
    \/ RequestCompare
    \/ CreateReference
    \/ CompareWithRef
    \/ WriteResponseFile
    \/ WriteReferenceFile
    \/ ReRaise
    \/ TestReturns

SpecCompare == CompareInit /\ [][CompareNext]_vars

(* ------------------------------------------------------------------ *)
(* docker_orchestrator.py: test, then clean                             *)
(* ------------------------------------------------------------------ *)

\* number of successive polls that see the same answer of the runtime
StatusHold == 250

\* an exception leaves the script
DockerFails(exc) ==
    /\ dpc' = "failed"
    /\ derror' = exc

ScriptLocals == <<cov_idx, instance_file, has_failures, pytest_exit>>

\* init_dockers: docker-compose up, then wait_for_cities_db is called
InitDockers ==
    /\ dpc = "main"
    /\ dpc' = "cities"
    /\ dwait' = NewWait("wait_for_cities_db", DockerStopMaxDelay, DockerWaitFixed)
    /\ UNCHANGED <<fleet, inner, op_time, derror, ScriptLocals>>
    /\ UNCHANGED <<loaderVars, compareVars, envVars>>

\* polls of wait_for_cities_db
CitiesDbAttempt ==
    /\ dpc = "cities"
    /\ \E transport \in Transports, status_code \in CitiesStatusCodes :
         LET w == Polls(dwait, wait_for_cities_db(transport, status_code), StatusHold)
         IN  /\ dwait' = w
             /\ CASE w.status = "calling" -> UNCHANGED <<dpc, derror, cov_idx>>
                  [] w.status = "returned" ->
                       dpc' = "launch" /\ cov_idx' = 1 /\ UNCHANGED derror
                  [] OTHER -> DockerFails(w.exc) /\ UNCHANGED cov_idx
    /\ UNCHANGED <<fleet, inner, op_time, instance_file, has_failures, pytest_exit>>
    /\ UNCHANGED <<loaderVars, compareVars, envVars>>

\* launch_coverages: every instance has been run
LaunchReturns ==
    /\ dpc = "launch"
    /\ cov_idx > Len(Coverages)
    /\ dpc' = "clean"
    /\ dwait' = NoWait
    /\ UNCHANGED <<fleet, inner, op_time, derror, ScriptLocals>>
    /\ UNCHANGED <<loaderVars, compareVars, envVars>>

\* launch_coverages: write the instance file, docker-compose up of the kraken
\* and of instances_configurator, then wait_for_instance_configuration is
\* called and its first attempt calls wait_for_instance_configuration_status
ComposeUpInstance ==
    /\ dpc = "launch"
    /\ cov_idx <= Len(Coverages)
    /\ instance_file' = TRUE
    /\ dpc' = "config_running"
    /\ dwait' = NewWait("wait_for_instance_configuration",
                        DockerStopMaxDelay, DockerWaitFixed)
    /\ inner' = NewWait("wait_for_instance_configuration_status",
                        StatusStopMaxDelay, StatusWaitFixed)
    /\ op_time' = 0
    /\ UNCHANGED <<fleet, cov_idx, has_failures, pytest_exit, derror>>
    /\ UNCHANGED <<loaderVars, compareVars, envVars>>

\* the attempt of wait_for_instance_configuration ends with result, having
\* taken time: it returns, is retried after the sleep, or raises
ConfigurationAttemptEnds(result, time) ==
    LET w == DockerRetrying(dwait, result, time)
    IN  /\ dwait' = w
        /\ op_time' = 0
        /\ CASE w.status = "calling" ->
                  /\ dpc' = "config_running"
                  /\ inner' = NewWait("wait_for_instance_configuration_status",
                                      StatusStopMaxDelay, StatusWaitFixed)
                  /\ UNCHANGED derror
             [] w.status = "returned" ->
                  dpc' = "tests" /\ inner' = NoWait /\ UNCHANGED derror
             [] OTHER -> DockerFails(w.exc) /\ inner' = NoWait

\* polls of wait_for_instance_configuration_status("running")
StatusRunningAttemptSkipped ==
    /\ dpc = "config_running"
    /\ \E reachable \in BOOLEAN :
         LET w == Polls(inner,
                        wait_for_instance_configuration_status(reachable, fleet, "running"),
                        StatusHold)
         IN  /\ inner' = NewWait("wait_for_instance_configuration_status",
                                 StatusStopMaxDelay, StatusWaitFixed)
             /\ op_time' = op_time + w.delay
             /\ dpc' = "config_exited"
             /\ UNCHANGED <<dwait, derror>>
    /\ UNCHANGED <<fleet, ScriptLocals>>
    /\ UNCHANGED <<loaderVars, compareVars, envVars>>
StatusRunningAttempt ==
    /\ dpc = "config_running"
    /\ \E reachable \in BOOLEAN :
         LET w == Polls(inner,
                        wait_for_instance_configuration_status(reachable, fleet, "running"),
                        StatusHold)
         IN  CASE w.status = "calling" ->
                    inner' = w /\ UNCHANGED <<dpc, dwait, op_time, derror>>
               [] w.status = "returned" ->
                    /\ inner' = NewWait("wait_for_instance_configuration_status",
                                        StatusStopMaxDelay, StatusWaitFixed)
                    /\ op_time' = op_time + w.delay
                    /\ dpc' = "config_exited"
                    /\ UNCHANGED <<dwait, derror>>
               [] OTHER ->
                    ConfigurationAttemptEnds(Raise(w.exc.type, w.exc.msg),
                                             op_time + w.delay)
    /\ UNCHANGED <<fleet, ScriptLocals>>
    /\ UNCHANGED <<loaderVars, compareVars, envVars>>

\* polls of wait_for_instance_configuration_status("exited")
StatusExitedAttempt ==
    /\ dpc = "config_exited"
    /\ \E reachable \in BOOLEAN :
         LET w == Polls(inner,
                        wait_for_instance_configuration_status(reachable, fleet, "exited"),
                        StatusHold)
         IN  CASE w.status = "calling" ->
                    inner' = w /\ UNCHANGED <<dpc, dwait, op_time, derror>>
               [] w.status = "returned" ->
                    ConfigurationAttemptEnds(Return, op_time + w.delay)
               [] OTHER ->
                    ConfigurationAttemptEnds(Raise(w.exc.type, w.exc.msg),
                                             op_time + w.delay)
    /\ UNCHANGED <<fleet, ScriptLocals>>
    /\ UNCHANGED <<loaderVars, compareVars, envVars>>

\* pytest.main on the test class of the instance
PytestExitCodes == {0, 1}
RunPytestLastOnly ==
    /\ dpc = "tests"
    /\ \E p \in PytestExitCodes :
         /\ pytest_exit' = p
         /\ has_failures' = (p # 0)
    /\ dpc' = "stop"
    /\ dwait' = NoWait
    /\ UNCHANGED <<fleet, inner, op_time, cov_idx, instance_file, derror>>
    /\ UNCHANGED <<loaderVars, compareVars, envVars>>
RunPytest ==
    /\ dpc = "tests"
    /\ \E p \in PytestExitCodes :
         /\ pytest_exit' = p
         /\ has_failures' = IF p # 0 THEN TRUE ELSE has_failures
    /\ dpc' = "stop"
    /\ dwait' = NoWait
    /\ UNCHANGED <<fleet, inner, op_time, cov_idx, instance_file, derror>>
    /\ UNCHANGED <<loaderVars, compareVars, envVars>>

\* docker-compose stop of the kraken, then wait_for_kraken_stop is called
StopKraken ==
    /\ dpc = "stop"
    /\ dpc' = "stop_wait"
    /\ dwait' = NewWait("wait_for_kraken_stop", DockerStopMaxDelay, DockerWaitFixed)
    /\ UNCHANGED <<fleet, inner, op_time, derror, ScriptLocals>>
    /\ UNCHANGED <<loaderVars, compareVars, envVars>>

\* polls of a module-level wait on the containers: on return the script is
\* at `next`
ContainerWaitAttempt(at, result, next) ==
    /\ dpc = at
    /\ LET w == Polls(dwait, result, StatusHold)
       IN  /\ dwait' = w
           /\ CASE w.status = "calling" -> UNCHANGED <<dpc, derror>>
                [] w.status = "returned" -> dpc' = next /\ UNCHANGED derror
                [] OTHER -> DockerFails(w.exc)
    /\ UNCHANGED <<fleet, inner, op_time, ScriptLocals>>
    /\ UNCHANGED <<loaderVars, compareVars, envVars>>

KrakenStopAttempt ==
    \E reachable \in BOOLEAN :
        ContainerWaitAttempt("stop_wait",
            wait_for_kraken_stop(reachable, fleet, KrakenName(Coverages[cov_idx])), "rm")

\* docker-compose rm -f of the kraken, then wait_for_docker_removal is called
RemoveKraken ==
    /\ dpc = "rm"
    /\ dpc' = "removal_wait"
    /\ dwait' = NewWait("wait_for_kraken_removal", DockerStopMaxDelay, DockerWaitFixed)
    /\ UNCHANGED <<fleet, inner, op_time, derror, ScriptLocals>>
    /\ UNCHANGED <<loaderVars, compareVars, envVars>>

KrakenRemovalAttempt ==
    \E reachable \in BOOLEAN :
        ContainerWaitAttempt("removal_wait",
            wait_for_kraken_removal(reachable, fleet, KrakenName(Coverages[cov_idx])),
            "remove_file")

\* os.remove(instance_file), then the next instance
RemoveInstanceFile ==
    /\ dpc = "remove_file"
    /\ instance_file' = FALSE
    /\ cov_idx' = cov_idx + 1
    /\ dpc' = "launch"
    /\ dwait' = NoWait
    /\ UNCHANGED <<fleet, inner, op_time, has_failures, pytest_exit, derror>>
    /\ UNCHANGED <<loaderVars, compareVars, envVars>>

\* docker_clean: docker-compose down, then wait_for_containers_stop is called
DockerClean ==
    /\ dpc = "clean"
    /\ dpc' = "clean_wait"
    /\ dwait' = NewWait("wait_for_containers_stop", DockerStopMaxDelay, DockerWaitFixed)
    /\ UNCHANGED <<fleet, inner, op_time, derror, ScriptLocals>>
    /\ UNCHANGED <<loaderVars, compareVars, envVars>>

ContainersStopAttempt ==
    \E reachable \in BOOLEAN :
        ContainerWaitAttempt("clean_wait", wait_for_containers_stop(reachable, fleet),
                             "report")

\* if f: raise Exception("Some tests FAILED")
ScriptEnds ==
    /\ dpc = "report"
    /\ dpc' = "exit"
    /\ derror' = IF has_failures THEN Exc("Exception", "Some tests FAILED") ELSE NoExc
    /\ dwait' = NoWait
    /\ UNCHANGED <<fleet, inner, op_time, ScriptLocals>>
    /\ UNCHANGED <<loaderVars, compareVars, envVars>>

\* the runtime: a container is created, starts, exits or is removed, as the
\* commands issued so far ask for; docker-compose up of a further instance
\* recreates the instances_configurator container of the one before (the
\* model lets it do so before the first poll of the wait)
ContainerSteps(at, name) ==
    CASE "instances_configurator" \in Contains(name) /\ at \notin {"main", "cities", "launch"} ->
            {<<"absent", "created">>, <<"created", "running">>, <<"running", "exited">>}
            \cup (IF at = "config_running" /\ cov_idx > 1
                      /\ dwait.attempt_number = 0 /\ inner.attempt_number = 0
                   THEN {<<"exited", "created">>}
                   ELSE {})
      [] "tyr_worker" \in Contains(name) /\ at \notin {"main", "clean_wait", "report", "exit"} ->
            {<<"absent", "running">>}
      [] at \in {"config_running", "config_exited", "tests"}
            /\ KrakenName(Coverages[cov_idx]) \in Contains(name) ->
            {<<"absent", "running">>}
      [] at \in {"stop_wait", "rm"} /\ KrakenName(Coverages[cov_idx]) \in Contains(name) ->
            {<<"running", "exited">>}
      [] at = "removal_wait" /\ KrakenName(Coverages[cov_idx]) \in Contains(name) ->
            {<<"running", "exited">>, <<"exited", "absent">>, <<"running", "absent">>}
      [] OTHER -> {}
DownSteps(at) ==
    IF at \in {"clean_wait", "report", "exit"}
    THEN {<<s, "absent">> : s \in ContainerStatuses \ {"absent"}}
    ELSE {}

FleetChanges ==
    /\ \E n \in ContainerNames :
         \E step \in ContainerSteps(dpc, n) \cup DownSteps(dpc) :
            /\ fleet[n] = step[1]
            /\ fleet' = [fleet EXCEPT ![n] = step[2]]
    /\ UNCHANGED <<dpc, dwait, inner, op_time, derror, ScriptLocals>>
    /\ UNCHANGED <<loaderVars, compareVars, envVars>>

(* ------------------------------------------------------------------ *)
(* Specification of docker_orchestrator.py                              *)
(* ------------------------------------------------------------------ *)

DockerInit == LoaderInit

\* the steps of the script
ScriptNext ==
    \/ InitDockers
    \/ CitiesDbAttempt
    \/ LaunchReturns
    \/ ComposeUpInstance
    \/ StatusRunningAttempt
    \/ StatusExitedAttempt
    \/ RunPytest
    \/ StopKraken
    \/ KrakenStopAttempt
    \/ RemoveKraken
    \/ KrakenRemovalAttempt
    \/ RemoveInstanceFile
    \/ DockerClean
    \/ ContainersStopAttempt
    \/ ScriptEnds

DockerNext ==
    \/ ScriptNext
    \/ FleetChanges

SpecDocker == DockerInit /\ [][DockerNext]_vars

(* ------------------------------------------------------------------ *)
(* Specification of wait_for_instance_configuration alone               *)
(* ------------------------------------------------------------------ *)

\* launch_coverages has issued docker-compose up for the first instance and
\* calls wait_for_instance_configuration; no container exists yet
ConfigInit ==
    /\ pc = "idle"
    /\ dataset_binarized = <<>>
    /\ todo = <<>>
    /\ data_set = NoDataSet
    /\ wait = NoWait
    /\ error = NoExc
    /\ containers = <<>>
    /\ last_reload_time = NoLoadTime
    /\ current_utc_datetime = 0
    /\ stage_idx = 0
    /\ dataset_types_to_process = <<>>
    /\ job_idx = 0
    /\ jobs_resp = <<>>
    /\ new_data_loaded = NoLoadTime
    /\ last_load_at = 1
    /\ pushed = <<>>
    /\ steps_run = NoSteps
    /\ CompareIdle
    /\ EnvIdle
    /\ dpc = "config_running"
    /\ fleet = [n \in ContainerNames |-> "absent"]
    /\ dwait = NewWait("wait_for_instance_configuration",
                       DockerStopMaxDelay, DockerWaitFixed)
    /\ inner = NewWait("wait_for_instance_configuration_status",
                       StatusStopMaxDelay, StatusWaitFixed)
    /\ op_time = 0
    /\ cov_idx = 1
    /\ instance_file = TRUE
    /\ has_failures = FALSE
    /\ pytest_exit = 0
    /\ derror = NoExc

ConfigNext ==
    \/ StatusRunningAttempt
    \/ StatusExitedAttempt
    \/ FleetChanges

\* the script is sequential: while wait_for_instance_configuration runs, its
\* next poll is eventually made
SpecConfig ==
    /\ ConfigInit
    /\ [][ConfigNext]_vars
    /\ WF_vars(StatusRunningAttempt)
    /\ WF_vars(StatusExitedAttempt)

(* ------------------------------------------------------------------ *)
(* Specification of the dataset loader                                  *)
(* ------------------------------------------------------------------ *)

Init == LoaderInit

Next ==
    \/ ManageDataSkipBina
    \/ ManageDataStart
    \/ ManageDataReturn
    \/ ManageDataSkipLoaded
    \/ ManageDataLoad
    \/ TyrInstanceScanAttempt
    \/ UpdateInstancePut
    \/ RemoveDataByDataset
    \/ UpdateDataOpen
    \/ CaptureBaselines
    \/ PutData
    \/ StagingDone
    \/ JobWaitStart
    \/ ReloadWaitStart
    \/ DataProcessingAttempt(JobListsUpTo(1, {dataset_types_to_process[job_idx]}), FALSE)
    \/ KrakenReloadAttempt
    \/ CheckValuesAndMark
    \/ KrakenLoads

Spec == Init /\ [][Next]_vars

(* ------------------------------------------------------------------ *)
(* Specification of wait_for_data_processing alone                      *)
(* ------------------------------------------------------------------ *)

\* types of the data sets in the jobs served: the awaited one and another
ServedTypes == {"geopal", "osm"}
JobLists == JobListsUpTo(MaxJobs, ServedTypes)

\* update_data_by_dataset has staged the geopal category of fr-idf and calls
\* wait_for_data_processing("geopal", since); the jobs endpoint serves the
\* list in jobs_resp
JobsInit ==
    /\ pc = "jobs"
    /\ dataset_binarized = <<>>
    /\ data_set \in {d \in DataSets : d.name = "fr-idf"}
    /\ todo = <<data_set>>
    /\ wait = DataWait("wait_for_data_processing")
    /\ error = NoExc
    /\ containers = <<"tyr_worker">>
    /\ last_reload_time = 1
    /\ current_utc_datetime = 1
    /\ stage_idx = Len(data_to_process) + 1
    /\ dataset_types_to_process = <<"geopal">>
    /\ job_idx = 1
    /\ jobs_resp \in JobLists
    /\ new_data_loaded = NoLoadTime
    /\ last_load_at = 1
    /\ pushed = <<"geopal">>
    /\ steps_run = {"registry_poll", "config_push", "put_archive"}
    /\ CompareIdle
    /\ DockerIdle
    /\ EnvIdle

JobsNext == DataProcessingAttempt({jobs_resp}, TRUE)

SpecJobs == JobsInit /\ [][JobsNext]_vars

(* ------------------------------------------------------------------ *)
(* Specification of wait_for_kraken_reload alone                        *)
(* ------------------------------------------------------------------ *)

\* update_data_by_dataset has run the job waits of what it staged and calls
\* wait_for_kraken_reload(last_reload_time, cov_name)
ReloadInit ==
    /\ pc = "reload"
    /\ dataset_binarized = <<>>
    /\ data_set \in DataSets
    /\ todo = <<data_set>>
    /\ wait = DataWait("wait_for_kraken_reload")
    /\ error = NoExc
    /\ containers = <<"tyr_worker">>
    /\ last_reload_time \in {NoLoadTime, 1}
    /\ current_utc_datetime \in Stamps
    /\ stage_idx = Len(data_to_process) + 1
    /\ dataset_types_to_process \in {<<>>, <<"fusio">>}
    /\ job_idx = Len(dataset_types_to_process) + 1
    /\ jobs_resp = <<>>
    /\ new_data_loaded = NoLoadTime
    /\ last_load_at = 1
    /\ pushed = dataset_types_to_process
    /\ steps_run = {"registry_poll", "config_push"}
                    \cup (IF pushed = <<>> THEN {} ELSE {"put_archive", "job_wait"})
    /\ CompareIdle
    /\ DockerIdle
    /\ EnvIdle

ReloadNext ==
    \/ KrakenReloadAttempt
    \/ KrakenLoads

\* the test thread runs on: each attempt returns or raises, and the next one
\* follows the sleep
SpecReload == ReloadInit /\ [][ReloadNext]_vars /\ WF_vars(KrakenReloadAttempt)

(* ------------------------------------------------------------------ *)
(* Specification of the waits of update_data_by_dataset with Tyr's jobs *)
(* ------------------------------------------------------------------ *)

\* what update_data_by_dataset may have staged when the job waits start
StagedTypes == {<<"fusio">>, <<"fusio", "osm">>}

\* GET /v0/jobs/{instance}: one job per staged type, created after `since`
TyrJobList ==
    [i \in DOMAIN tyr_jobs |->
        Job(current_utc_datetime + 1, dataset_types_to_process[i], tyr_jobs[i])]

\* staged types whose job is done
Ingested == {i \in DOMAIN tyr_jobs : tyr_jobs[i] = "done"}

\* update_data_by_dataset has pushed the archives of fr-idf and is at the
\* loop of the job waits; Tyr has a pending job for each staged type
IngestInit ==
    /\ pc = "jobs_next"
    /\ dataset_binarized = <<>>
    /\ data_set \in {d \in DataSets : d.name = "fr-idf"}
    /\ todo = <<data_set>>
    /\ wait = NoWait
    /\ error = NoExc
    /\ containers = <<"tyr_worker">>
    /\ last_load_at \in {NoLoadTime, 1}
    /\ last_reload_time = last_load_at
    /\ current_utc_datetime = 1
    /\ stage_idx = Len(data_to_process) + 1
    /\ dataset_types_to_process \in StagedTypes
    /\ pushed = dataset_types_to_process
    /\ job_idx = 1
    /\ jobs_resp = <<>>
    /\ new_data_loaded = NoLoadTime
    /\ steps_run = {"registry_poll", "config_push", "put_archive"}
    /\ tyr_jobs = [i \in DOMAIN dataset_types_to_process |-> "pending"]
    /\ kraken_data = {}
    /\ local_dirs = SeqToSet(pushed)
    /\ exec_runs = <<>>
    /\ CompareIdle
    /\ DockerIdle

\* Tyr: the job of a staged type starts, then ends done or failed
TyrJobProgress ==
    /\ UNCHANGED <<loaderVars, compareVars, dockerVars>>
    /\ pc \in StagedPositions
    /\ \E i \in DOMAIN tyr_jobs :
         \E state \in (IF tyr_jobs[i] = "pending" THEN {"running"}
                       ELSE IF tyr_jobs[i] = "running" THEN {"done", "failed"}
                       ELSE {}) :
            tyr_jobs' = [tyr_jobs EXCEPT ![i] = state]
    /\ UNCHANGED <<kraken_data, local_dirs, exec_runs>>

\* the routing engine reloads after a job has ended done: it serves what has
\* been ingested so far and status.last_load_at changes
KrakenReloadsData ==
    /\ UNCHANGED <<compareVars, dockerVars>>
    /\ pc \in StagedPositions
    /\ Ingested \ kraken_data # {}
    /\ kraken_data' = Ingested
    /\ last_load_at' = last_load_at + 1
    /\ UNCHANGED <<pc, dataset_binarized, todo, data_set, wait, error, steps_run, tyr_jobs,
                   local_dirs, exec_runs>>
    /\ KeepLocals

IngestNext ==
    \/ JobWaitStart
    \/ DataProcessingAttempt({TyrJobList}, FALSE)
    \/ ReloadWaitStart
    \/ KrakenReloadAttempt
    \/ TyrJobProgress
    \/ KrakenReloadsData

SpecIngest == IngestInit /\ [][IngestNext]_vars

(* ------------------------------------------------------------------ *)
(* Specification of the staging loop with the data directories          *)
(* ------------------------------------------------------------------ *)

\* the categories that may have a directory under data_path/<dataset>
Categories == {data_to_process[i].files : i \in DOMAIN data_to_process}

\* update_data_by_dataset has taken its baselines and enters the staging
\* loop: some categories have a directory, a tyr_worker is listed or not
StageInit ==
    /\ pc = "stage"
    /\ dataset_binarized = <<>>
    /\ data_set \in {d \in DataSets : d.name = "fr-idf"}
    /\ todo = <<data_set>>
    /\ wait = NoWait
    /\ error = NoExc
    /\ containers \in {<<>>, <<"tyr_worker">>}
    /\ last_load_at = 1
    /\ last_reload_time = last_load_at
    /\ current_utc_datetime = 1
    /\ stage_idx = 1
    /\ dataset_types_to_process = <<>>
    /\ pushed = <<>>
    /\ job_idx = 0
    /\ jobs_resp = <<>>
    /\ new_data_loaded = NoLoadTime
    /\ steps_run = {"registry_poll", "config_push"}
    /\ tyr_jobs = <<>>
    /\ kraken_data = {}
    /\ local_dirs \in SUBSET Categories
    /\ exec_runs = <<>>
    /\ CompareIdle
    /\ DockerIdle

\* put_data with os.path.exists(path) answering from the directories
PutDataLocal == PutDataWhere(TRUE)

StageNext ==
    \/ PutDataLocal
    \/ StagingDone

SpecStage == StageInit /\ [][StageNext]_vars

(* ------------------------------------------------------------------ *)
(* Specification of the container steps of a load, commands recorded    *)
(* ------------------------------------------------------------------ *)

\* manage_data has run update_instance_db for a dataset and calls
\* remove_data_by_dataset
RemoveInit ==
    /\ pc = "remove"
    /\ dataset_binarized = <<>>
    /\ data_set \in DataSets
    /\ todo = <<data_set>>
    /\ wait = NoWait
    /\ error = NoExc
    /\ containers = <<>>
    /\ last_load_at \in {NoLoadTime, 1}
    /\ last_reload_time = NoLoadTime
    /\ current_utc_datetime = 0
    /\ stage_idx = 0
    /\ dataset_types_to_process = <<>>
    /\ pushed = <<>>
    /\ job_idx = 0
    /\ jobs_resp = <<>>
    /\ new_data_loaded = NoLoadTime
    /\ steps_run = {"registry_poll", "config_push"}
    /\ EnvIdle
    /\ CompareIdle
    /\ DockerIdle

\* remove_data_by_dataset with the runtime listing any containers
RemoveDataRecorded == RemoveDataWhere(RunningLists, TRUE)

RemoveNext ==
    \/ RemoveDataRecorded
    \/ UpdateDataOpen
    \/ CaptureBaselines
    \/ PutData
    \/ StagingDone

SpecRemove == RemoveInit /\ [][RemoveNext]_vars

(* ------------------------------------------------------------------ *)
(* Properties of the retry-wrapped waits                                *)
(* ------------------------------------------------------------------ *)

\* this step is one attempt of the running wait
Attempted == wait'.attempt_number = wait.attempt_number + 1

\* kinds of error the waits' operations raise that are not RetryError
FatalTypes == {"HTTPError", "ConnectionError", "Exception"}

\* C1: in each retry-wrapped wait of the loader, an attempt that raises a
\* fatal (non-retryable) error is the last attempt of that call, whatever the
\* maximum delay, and the error that leaves manage_data is that very error.
C1_FatalNeverRetried ==
    [][ /\ (wait.exc.type \in FatalTypes => ~Attempted)
        /\ (Attempted /\ wait'.exc.type \in FatalTypes =>
               /\ wait'.status = "raised"
               /\ wait'.last = "fatal"
               /\ pc' = "idle"
               /\ error' = wait'.exc) ]_vars

\* a fatal error ended a wait that had already retried, before its maximum delay
C1_Witness ==
    /\ wait.name \in {"wait_for_tyr_instance_scan", "wait_for_data_processing"}
    /\ wait.last = "fatal"
    /\ wait.attempt_number >= 2
    /\ wait.delay < wait.stop_max_delay
    /\ error = wait.exc

\* C2: a wait whose maximum delay is 0 and whose first attempt signals a
\* retryable condition fails at once with that signal: one attempt, no second.
C2_ZeroDelayOneAttempt ==
    (wait.stop_max_delay = 0 /\ wait.last = "retryable") =>
        /\ wait.attempt_number = 1
        /\ wait.status = "raised"
        /\ pc = "idle"
        /\ error = wait.exc
        /\ is_retry_exception(error)

C2_Witness ==
    /\ wait.name = "wait_for_kraken_reload"
    /\ wait.stop_max_delay = 0
    /\ wait.last = "retryable"
    /\ wait.attempt_number = 1
    /\ pc = "idle"

\* C5: a poll of wait_for_kraken_reload that reads the status succeeds exactly
\* when the last_load_at it observed differs from the baseline t0; while the
\* observed value equals t0 the poll is a retryable failure.
C5_ReloadIffChanged ==
    (wait.name = "wait_for_kraken_reload" /\ wait.attempt_number >= 1
        /\ wait.last # "fatal") =>
        /\ (wait.last = "return") = (new_data_loaded # last_reload_time)
        /\ (wait.last = "retryable") = (new_data_loaded = last_reload_time)

\* the reload wait succeeded on a later poll, after polls that saw the baseline
C5_Witness ==
    /\ wait.name = "wait_for_kraken_reload"
    /\ wait.last = "return"
    /\ wait.attempt_number >= 2
    /\ new_data_loaded # last_reload_time

\* C6: when manage_data meets a dataset already marked loaded it only moves on
\* to the next dataset: no load step runs and the loaded list is unchanged;
\* and no load step ever runs for a dataset that is in the loaded list.
C6_LoadedIsSkipped ==
    [][ /\ (pc = "next" /\ todo # <<>>
              /\ Head(todo).name \in SeqToSet(dataset_binarized)) =>
               /\ pc' = "next"
               /\ todo' = Tail(todo)
               /\ dataset_binarized' = dataset_binarized
               /\ steps_run' = steps_run
               /\ wait' = wait
               /\ pushed' = pushed
        /\ (~(steps_run' \subseteq steps_run) =>
               data_set'.name \notin SeqToSet(dataset_binarized)) ]_vars

\* manage_data went through a class whose datasets were all loaded already
C6_Witness ==
    /\ pc = "next"
    /\ todo = <<>>
    /\ steps_run = NoSteps
    /\ dataset_binarized # <<>>

(* ------------------------------------------------------------------ *)
(* Properties of wait_for_data_processing (SpecJobs)                    *)
(* ------------------------------------------------------------------ *)

\* the latest attempt read the job list in jobs_resp
Polled == wait.attempt_number >= 1 /\ wait.exc.type # "HTTPError"

AwaitedType == dataset_types_to_process[1]
Fresh(job) == job.created_at > current_utc_datetime
HasType(job, t) == \E k \in 1..Len(job.data_sets) : job.data_sets[k].type = t
EntryState(job, t) ==
    LET k == CHOOSE i \in 1..Len(job.data_sets) :
                 /\ job.data_sets[i].type = t
                 /\ \A j \in 1..(i - 1) : job.data_sets[j].type # t
    IN  job.data_sets[k].state

\* state of the first entry of type t, in list order, among the jobs created
\* after the time limit; "absent" when there is none
FirstFreshState(jl, t) ==
    LET idx == {i \in 1..Len(jl) : Fresh(jl[i]) /\ HasType(jl[i], t)}
    IN  IF idx = {} THEN "absent"
        ELSE EntryState(jl[CHOOSE i \in idx : \A j \in idx : i <= j], t)

SomeFreshDone(jl, t) ==
    \E i \in 1..Len(jl) :
        /\ Fresh(jl[i])
        /\ \E k \in 1..Len(jl[i].data_sets) :
              jl[i].data_sets[k].type = t /\ jl[i].data_sets[k].state = "done"

\* C3 as stated: a poll succeeds as soon as some job created after `since`
\* has the awaited type done, whatever the other jobs and their order.
C3_AnyFreshDoneSucceeds ==
    (Polled /\ SomeFreshDone(jobs_resp, AwaitedType)) => wait.last = "return"

\* C3, amended: a poll succeeds exactly when the first entry of the awaited
\* type, in list order, among the jobs created strictly after `since` is
\* done; jobs created at or before `since` change nothing: the poll ends as it
\* does on the list without them.
C3_FirstFreshDoneSucceeds ==
    Polled =>
        /\ (wait.last = "return") = (FirstFreshState(jobs_resp, AwaitedType) = "done")
        /\ LET fresh == SelectSeq(jobs_resp, Fresh)
               alone == wait_for_data_processing("ok", fresh, AwaitedType,
                                                 current_utc_datetime)
           IN  /\ (wait.last = "return") = (alone.kind = "return")
               /\ (wait.last # "return") => wait.exc = alone.exc

\* a poll that read a job of the awaited type, done but created exactly at
\* `since`, ahead of a fresh job of that type still running, did not succeed
C3_Witness ==
    /\ Polled
    /\ wait.last = "retryable"
    /\ Len(jobs_resp) = 2
    /\ jobs_resp[1].created_at = current_utc_datetime
    /\ HasType(jobs_resp[1], AwaitedType)
    /\ EntryState(jobs_resp[1], AwaitedType) = "done"
    /\ FirstFreshState(jobs_resp, AwaitedType) = "running"

\* C4: for the entry matching the awaited type in a job created after
\* `since`: done gives success; failed gives a fatal error that ends the wait
\* at once; pending, running or no such entry give a retryable signal, after
\* which the wait polls again unless its maximum delay has been reached.
C4_StateDecidesOutcome ==
    Polled =>
        LET st == FirstFreshState(jobs_resp, AwaitedType)
        IN  /\ (st = "done") =>
                  wait.last = "return" /\ wait.status = "returned"
            /\ (st = "failed") =>
                  /\ wait.last = "fatal"
                  /\ wait.status = "raised"
                  /\ wait.exc = Exc("Exception", "Dataset failed")
                  /\ error = wait.exc
                  /\ pc = "idle"
            /\ (st \in {"pending", "running", "absent"}) =>
                  /\ wait.last = "retryable"
                  /\ is_retry_exception(wait.exc)
                  /\ \/ wait.status = "calling" /\ pc = "jobs" /\ error = NoExc
                     \/ /\ wait.status = "raised"
                        /\ wait.delay >= wait.stop_max_delay
                        /\ error = wait.exc

\* the wait polled again after the retryable signal of a pending job
C4_Witness ==
    /\ Polled
    /\ wait.attempt_number >= 2
    /\ FirstFreshState(jobs_resp, AwaitedType) = "pending"
    /\ wait.last = "retryable"
    /\ wait.status = "calling"

(* ------------------------------------------------------------------ *)
(* Properties of request_compare                                        *)
(* ------------------------------------------------------------------ *)

\* the reference file of the call being made
CurrentReference == get_reference_file_path(nb_call_to_request_compare)

\* C7: in create mode, a request_compare whose reference file already exists
\* ends the test with an AssertionError; the step that finds the file leaves
\* every file as it was, and so does the query that precedes it.
C7_ExistingReferenceKept ==
    [][ /\ (cpc = "create" /\ isfile(files, CurrentReference) =>
               /\ files' = files
               /\ output_dir' = output_dir
               /\ cpc' = "ended"
               /\ raised'.type = "AssertionError")
        /\ (cpc = "test" /\ create_ref => files' = files) ]_vars

\* create mode met a reference that differs from what the response would
\* have written, and the test ended on it
C7_Witness ==
    /\ cpc = "ended"
    /\ create_ref
    /\ raised.type = "AssertionError"
    /\ isfile(files, CurrentReference)
    /\ json_loads(response_string).kind = "return"
    /\ files[CurrentReference] # reference_text(HttpQuery, response_string)

\* C8: in every reference file, the filter applied to the stored
\* full_response gives the stored response.
C8_FilterRoundTrip ==
    \A p \in Paths :
        p.kind = "reference" /\ isfile(files, p) =>
            SameObject(filter(files[p].full_response), files[p].response)

\* C9: in compare mode, a request_compare that finds no reference file ends
\* the test with an exception in that step, after the one GET of the call:
\* checker.compare is not run and no file or directory is written.
C9_MissingReferenceFatal ==
    [][ cpc = "compare" /\ ~isfile(files, CurrentReference) =>
            /\ cpc' = "ended"
            /\ raised'.type \in {"AssertionError", "ValueError"}
            /\ files' = files
            /\ output_dir' = output_dir
            /\ http_gets = 1 /\ http_gets' = 1
            /\ compared' = 0 ]_vars

\* the second call of a test found no reference, after the first one passed
C9_Witness ==
    /\ cpc = "ended"
    /\ ~create_ref
    /\ raised = Exc("AssertionError", "is not a file")
    /\ nb_call_to_request_compare = 2
    /\ http_gets = 1
    /\ compared = 0

\* the AssertionError of checker.compare
Mismatch == Exc("AssertionError", "response differs from reference")

\* C10: when the AssertionError of checker.compare has left request_compare,
\* the output directory exists and holds both artifacts of the call, the
\* response as write_full_response_to_file writes it and the reference as
\* read, and the call made one GET and one comparison.
C10_ArtifactsBeforeRaise ==
    raised = Mismatch =>
        /\ cpc = "ended"
        /\ output_dir
        /\ files[response_filepath(nb_call_to_request_compare)]
               = reference_text(HttpQuery, response_string)
        /\ isfile(files, output_reference_filepath(nb_call_to_request_compare))
        /\ files[output_reference_filepath(nb_call_to_request_compare)]
               = files[CurrentReference]
        /\ http_gets = 1
        /\ compared = 1

\* the second call of a test mismatched, after the first one passed
C10_Witness ==
    /\ raised = Mismatch
    /\ nb_call_to_request_compare = 2
    /\ ~isfile(files, response_filepath(1))

\* C11: a reference file is written only by the create-mode step of the call
\* it belongs to, and only when no file is there: a file that exists is never
\* changed or removed, so each reference path is written at most once, and no
\* step of compare mode changes any reference file.
C11_ReferenceWrittenOnce ==
    [][ \A p \in Paths :
            p.kind = "reference" =>
                /\ (isfile(files, p) => files'[p] = files[p])
                /\ (files'[p] # files[p] =>
                       /\ cpc = "create"
                       /\ create_ref
                       /\ p = CurrentReference) ]_vars

\* compare mode mismatched on a reference that differs from the response
\* artifact written beside it, and the reference is still there
C11_Witness ==
    /\ cpc = "ended"
    /\ ~create_ref
    /\ raised = Mismatch
    /\ nb_call_to_request_compare = 1
    /\ isfile(files, get_reference_file_path(1))
    /\ isfile(files, response_filepath(1))
    /\ files[get_reference_file_path(1)] # files[response_filepath(1)]

(* ------------------------------------------------------------------ *)
(* Properties of the waits of docker_orchestrator                       *)
(* ------------------------------------------------------------------ *)

\* C12: in every wait on the containers, a poll that cannot reach the runtime
\* ends the wait: no wait is still polling after such an error.
C12_UnreachableIsFatal ==
    /\ (dwait.exc.type = "DockerException" => dwait.status = "raised")
    /\ (inner.exc.type = "DockerException" => inner.status = "raised")

\* this step polled wait_for_instance_configuration_status while the script
\* was at `at`
StatusPolled(at) ==
    /\ dpc = at
    /\ <<dpc, dwait, inner>>' # <<dpc, dwait, inner>>

\* the instances_configurator container the polls of this step listed
ListedConfigurator ==
    FirstNamed({n \in ContainerNames : fleet[n] # "absent"}, "instances_configurator")

\* C13: the polls of wait_for_instance_configuration_status(expected) look at
\* the containers as they are when polled.  When the container named
\* instances_configurator has the expected status, or no container has that
\* name, the wait succeeds at once (unless the listing itself raised); when
\* its status differs, the wait does not succeed and the exception kept is
\* the status exception (or that of the listing), which asks for another poll.
C13_StatusWait ==
    [][ \A at \in {"config_running", "config_exited"} :
          StatusPolled(at) =>
            LET expected == IF at = "config_running" THEN "running" ELSE "exited"
                succeeded == IF at = "config_running" THEN dpc' = "config_exited"
                             ELSE dpc' = "tests"
                exc == IF inner'.attempt_number > 0 THEN inner'.exc ELSE dwait'.exc
            IN  IF ListedConfigurator = NoContainer
                   \/ fleet[ListedConfigurator] = expected
                THEN succeeded \/ exc.type = "DockerException"
                ELSE /\ ~succeeded
                     /\ exc \in {Exc("Exception", "instances_configurator status"),
                                 Exc("DockerException", "runtime unreachable")}
                     /\ \/ inner'.status = "calling" /\ inner'.last = "retryable"
                        \/ /\ inner'.attempt_number = 0
                           /\ dwait'.attempt_number = dwait.attempt_number + 1
                           /\ dwait'.delay >= StatusStopMaxDelay ]_vars

\* the wait for "running" succeeded on its first poll with no container named
\* instances_configurator, and the wait for "exited" is about to start
C13_Witness ==
    /\ dpc = "config_exited"
    /\ ListedConfigurator = NoContainer
    /\ inner.attempt_number = 0
    /\ op_time = 0
    /\ dwait.attempt_number = 0

\* C14: every call of a retry-wrapped wait ends.  It returns on the first
\* attempt that returns; it raises, with the RetryError of that attempt, on
\* the first attempt that fails retryably once the time since the first
\* attempt has reached the maximum delay; after every other retryable failure
\* it sleeps exactly the fixed interval; a call that has ended makes no
\* further attempt.
C14_WaitTerminates ==
    /\ [][ Attempted =>
             /\ wait.status = "calling"
             /\ wait.attempt_number > 0 =>
                    wait.last = "retryable" /\ wait.delay - wait.wait_fixed < wait.stop_max_delay
             /\ \E dur \in PollDurations :
                  LET delay == wait.delay + dur
                  IN  CASE wait'.last = "return" ->
                             wait'.status = "returned" /\ wait'.delay = delay
                        [] wait'.last = "fatal" ->
                             wait'.status = "raised" /\ wait'.delay = delay
                        [] OTHER ->
                             /\ is_retry_exception(wait'.exc)
                             /\ IF delay >= wait.stop_max_delay
                                THEN /\ wait'.status = "raised"
                                     /\ wait'.delay = delay
                                     /\ error' = wait'.exc
                                ELSE /\ wait'.status = "calling"
                                     /\ wait'.delay = delay + wait.wait_fixed ]_vars
    /\ (wait.status = "calling") ~> (wait.status # "calling")

\* wait_for_kraken_reload slept, polled again and raised the RetryError of
\* its last attempt once its maximum delay was reached
C14_Witness ==
    /\ wait.name = "wait_for_kraken_reload"
    /\ wait.status = "raised"
    /\ wait.last = "retryable"
    /\ wait.attempt_number >= 2
    /\ wait.delay >= wait.stop_max_delay
    /\ error = Exc("RetryError", "kraken data is not loaded")

\* C15: the time spent so far inside the running call of a wait, the calls
\* it makes included, never exceeds its maximum delay by more than one
\* interval.
C15_TimeWithinDelay ==
    dwait.delay + op_time + inner.delay <= dwait.stop_max_delay + dwait.wait_fixed

(* ------------------------------------------------------------------ *)
(* Properties of the load of a dataset                                  *)
(* ------------------------------------------------------------------ *)

\* the kinds of step every load of a dataset runs
MandatorySteps == {"registry_poll", "config_push", "reload_wait", "config_check"}

\* the kinds of step run for a dataset follow `order`: when a kind runs for
\* the first time no later kind has run and every earlier mandatory kind
\* has; and the dataset is marked loaded only once every mandatory kind has run
StepsFollow(order) ==
    /\ \A i \in 1..Len(order) :
          order[i] \in steps_run' \ steps_run =>
              /\ \A j \in (i + 1)..Len(order) : order[j] \notin steps_run
              /\ \A j \in 1..(i - 1) :
                    order[j] \in MandatorySteps => order[j] \in steps_run
    /\ dataset_binarized' # dataset_binarized =>
          /\ MandatorySteps \subseteq steps_run'
          /\ dataset_binarized' = Append(dataset_binarized, data_set.name)

\* C16 as stated: the steps of a load run in the order registry poll,
\* configuration push, configuration verification, removal of the stale
\* output, staging, job waits, reload wait, mark loaded.
C16_VerifiedBeforeStaging ==
    [][ StepsFollow(<<"registry_poll", "config_push", "config_check", "exec",
                      "put_archive", "job_wait", "reload_wait">>) ]_vars

\* C16: the steps of a load run in the order registry poll, configuration
\* push, removal of the stale output, staging, job waits, reload wait,
\* configuration verification; the dataset is marked loaded in the step in
\* which the verification passes.
C16_VerifiedAfterReload ==
    [][ StepsFollow(<<"registry_poll", "config_push", "exec", "put_archive",
                      "job_wait", "reload_wait", "config_check">>) ]_vars

\* a dataset was marked loaded by a load that ran every kind of step
C16_Witness ==
    /\ pc = "next"
    /\ steps_run = StepKinds
    /\ dataset_binarized # <<>>
    /\ error = NoExc

\* C17: a dataset is marked loaded only by the step in which its
\* configuration verification passes, after its registry poll and
\* configuration push, the job wait of every type staged and the reload wait
\* have succeeded.  A step that fails, or a wait that times out, ends
\* manage_data with that error and leaves the loaded list as it was, without
\* the dataset; and a dataset that is not in the list is loaded from the
\* first step when a test class meets it.
C17_LoadedOnlyAfterAllSteps ==
    [][ /\ dataset_binarized' # dataset_binarized =>
               /\ dataset_binarized' = Append(dataset_binarized, data_set.name)
               /\ {"registry_poll", "config_push", "reload_wait"} \subseteq steps_run
               /\ "config_check" \in steps_run' \ steps_run
               /\ job_idx = Len(dataset_types_to_process) + 1
               /\ dataset_types_to_process # <<>> => "job_wait" \in steps_run
               /\ wait.name = "wait_for_kraken_reload"
               /\ wait.status = "returned"
               /\ error' = NoExc
        /\ wait.status = "calling" /\ wait'.status = "raised" => error' = wait'.exc
        /\ error' # NoExc =>
               /\ pc' = "idle"
               /\ dataset_binarized' = dataset_binarized
               /\ data_set'.name \notin SeqToSet(dataset_binarized')
        /\ (pc = "next" /\ todo # <<>>
               /\ Head(todo).name \notin SeqToSet(dataset_binarized)) =>
               /\ pc' = "scan"
               /\ data_set' = Head(todo)
               /\ steps_run' = NoSteps ]_vars

\* the reload wait of a dataset timed out after its job waits succeeded:
\* manage_data ended with the RetryError and the dataset is not marked loaded
C17_Witness ==
    /\ pc = "idle"
    /\ wait.name = "wait_for_kraken_reload"
    /\ wait.status = "raised"
    /\ error = Exc("RetryError", "kraken data is not loaded")
    /\ {"job_wait", "reload_wait"} \subseteq steps_run
    /\ data_set.name \notin SeqToSet(dataset_binarized)
    /\ dataset_binarized # <<>>



\* C18: in update_data_by_dataset the two baselines are captured in one step
\* taken before anything is pushed and stay as captured until the reload
\* wait has ended; the job waits are started one after the other in the order
\* of staging, each after the wait before it returned; the reload wait is
\* started once every job wait has returned and its attempts compare with the
\* baseline captured; after a wait that raised nothing more is started.
C18_WaitsInSequence ==
    [][ /\ (last_reload_time' # last_reload_time
             \/ current_utc_datetime' # current_utc_datetime) =>
               \/ pc = "baseline" /\ pc' = "stage" /\ pushed = <<>> /\ pushed' = <<>>
               \/ pc' \notin StagedPositions
        /\ pushed' # pushed /\ pushed' # <<>> =>
               /\ pc = "stage"
               /\ UNCHANGED <<last_reload_time, current_utc_datetime>>
        /\ pc \in StagedPositions /\ pc' \in StagedPositions \cup {"check", "idle"} =>
               UNCHANGED <<last_reload_time, current_utc_datetime>>
        /\ pc # "jobs" /\ pc' = "jobs" =>
               /\ pc = "jobs_next"
               /\ job_idx' = job_idx
               /\ job_idx \in 1..Len(dataset_types_to_process)
               /\ wait.status = "returned"
               /\ job_idx > 1 => wait.name = "wait_for_data_processing"
               /\ wait' = DataWait("wait_for_data_processing")
        /\ job_idx' # job_idx /\ pc' \in StagedPositions =>
               \/ pc = "stage" /\ job_idx' = 1
               \/ /\ pc = "jobs"
                  /\ wait'.status = "returned"
                  /\ job_idx' = job_idx + 1
        /\ pc # "reload" /\ pc' = "reload" =>
               /\ pc = "jobs_next"
               /\ job_idx = Len(dataset_types_to_process) + 1
               /\ wait.status = "returned"
               /\ dataset_types_to_process # <<>> => wait.name = "wait_for_data_processing"
               /\ wait' = DataWait("wait_for_kraken_reload")
        /\ pc = "reload" /\ wait'.status = "returned" =>
               new_data_loaded' # last_reload_time
        /\ wait.status = "calling" /\ wait'.status = "raised" =>
               /\ pc' = "idle"
               /\ error' = wait'.exc
        /\ pc = "idle" => pc' \notin StagedPositions ]_vars

\* the reload wait was started after the job waits of two staged types
C18_Witness ==
    /\ pc = "reload"
    /\ Len(dataset_types_to_process) = 2
    /\ job_idx = 3
    /\ wait = DataWait("wait_for_kraken_reload")
    /\ "job_wait" \in steps_run
    /\ last_reload_time # NoLoadTime


\* C19: when update_data_by_dataset has returned after staging several
\* dataset types (the reload wait returned), the routing engine serves the
\* data of every staged type: the reload accepted came after the job of each
\* staged type was done.
C19_ReloadAfterAllJobs ==
    (pc = "check" /\ Len(dataset_types_to_process) > 1) =>
        kraken_data = DOMAIN dataset_types_to_process


\* the order of the categories and the dataset type awaited for each
CategoryOrder == <<"fusio", "osm", "fusio-poi", "geopal", "fusio-geopal">>
TypeAwaited(category) ==
    CASE category = "fusio" -> "fusio"
      [] category = "osm" -> "osm"
      [] category = "fusio-poi" -> "poi"
      [] category = "geopal" -> "geopal"
      [] category = "fusio-geopal" -> "geopal"

\* the categories among the first n of the order that have a directory
RECURSIVE PresentAmong(_)
PresentAmong(n) ==
    IF n = 0 THEN <<>>
    ELSE IF CategoryOrder[n] \in local_dirs
         THEN Append(PresentAmong(n - 1), CategoryOrder[n])
         ELSE PresentAmong(n - 1)

\* C20: the staging loop visits fusio, osm, fusio-poi, geopal, fusio-geopal
\* in that order; after the visit of the first n categories the archives
\* pushed are those of the categories among them that have a directory, in
\* that order, and the types to await are their images under fusio->fusio,
\* osm->osm, fusio-poi->poi, geopal->geopal, fusio-geopal->geopal, one entry
\* each; a category without a directory is neither pushed nor awaited.  (With
\* no tyr_worker listed the push of the first category that has a directory
\* raises instead: nothing is pushed or awaited.)
C20_StagedInOrder ==
    /\ pc \in {"stage", "jobs_next"} =>
          /\ stage_idx \in 1..(Len(CategoryOrder) + 1)
          /\ pc = "jobs_next" => stage_idx = Len(CategoryOrder) + 1
          /\ pushed = PresentAmong(stage_idx - 1)
          /\ dataset_types_to_process = [i \in DOMAIN pushed |-> TypeAwaited(pushed[i])]
          /\ pushed # <<>> => (containers # <<>> /\ "put_archive" \in steps_run)
    /\ pc = "idle" =>
          /\ containers = <<>>
          /\ error.type = "IndexError"
          /\ PresentAmong(stage_idx - 1) = <<>>
          /\ CategoryOrder[stage_idx] \in local_dirs
          /\ pushed = <<>>
          /\ dataset_types_to_process = <<>>

\* the loop is over with osm, fusio-poi and fusio-geopal pushed and the
\* other two categories absent
C20_Witness ==
    /\ pc = "jobs_next"
    /\ local_dirs = {"osm", "fusio-poi", "fusio-geopal"}
    /\ pushed = <<"osm", "fusio-poi", "fusio-geopal">>
    /\ dataset_types_to_process = <<"osm", "poi", "geopal">>

\* C21: the default values are PUT only in the step that follows a returned
\* wait_for_tyr_instance_scan, and an attempt of that wait returns only on an
\* answer without HTTP error that lists the dataset's name; the wait polls
\* for 60 s at 500 ms; when it raises (RetryError once 60 s have passed, or an
\* error that is not retried) manage_data ends with that error and no PUT
\* has been issued.
C21_PutAfterRegistryPoll ==
    [][ /\ "config_push" \in steps_run' \ steps_run =>
               /\ pc = "put"
               /\ "registry_poll" \in steps_run
               /\ wait.name = "wait_for_tyr_instance_scan"
               /\ wait.status = "returned"
               /\ wait.last = "return"
        /\ pc = "scan" =>
               /\ wait.stop_max_delay = 60000
               /\ wait.wait_fixed = 500
               /\ \A http \in HttpOutcomes, instances \in SUBSET DataSetNames :
                     wait_for_tyr_instance_scan(http, instances, data_set.name).kind = "return"
                        <=> (http = "ok" /\ data_set.name \in instances)
               /\ pc' = "put" => (wait'.status = "returned" /\ wait'.last = "return")
               /\ wait'.status = "raised" =>
                     /\ pc' = "idle"
                     /\ error' = wait'.exc
                     /\ "config_push" \notin steps_run'
                     /\ wait'.exc.type = "RetryError" => wait'.delay >= 60000
               /\ wait'.status = "calling" =>
                     /\ pc' = "scan"
                     /\ wait'.delay - 500 < 60000
                     /\ wait'.exc.type = "RetryError" ]_vars

\* the registry poll timed out: manage_data ended with the RetryError, no PUT
C21_Witness ==
    /\ pc = "idle"
    /\ wait.name = "wait_for_tyr_instance_scan"
    /\ wait.status = "raised"
    /\ error.type = "RetryError"
    /\ wait.attempt_number > 1
    /\ steps_run = {"registry_poll"}


\* C22: remove_data_by_dataset keeps the listed containers whose name
\* contains "tyr_worker"; with none it runs no command, raises nothing and
\* manage_data goes on to update_data_by_dataset; with one or more it runs
\* exactly one command, the rm of the dataset's output file, in the first of
\* them, and goes on as well.
C22_RemoveBestEffort ==
    [][ pc = "remove" =>
          /\ \A listing \in RunningLists :
                /\ SeqToSet(tyr_worker_containers(listing)) =
                      SeqToSet(listing) \ {"jormungandr"}
                /\ \A i, j \in DOMAIN listing :
                      (i < j /\ IsTyrWorker(listing[i]) /\ IsTyrWorker(listing[j])) =>
                         Head(tyr_worker_containers(listing)) # listing[j]
          /\ error' = NoExc =>
                /\ pc' = "open"
                /\ containers' = <<>> =>
                      /\ exec_runs' = exec_runs
                      /\ steps_run' = steps_run
                /\ containers' # <<>> =>
                      /\ exec_runs' = Append(exec_runs,
                                             [container |-> Head(containers'), cmd |-> "rm",
                                              path |-> data_set.name])
                      /\ "exec" \in steps_run'
          /\ error' # NoExc =>
                /\ error'.type = "DockerException"
                /\ exec_runs' = exec_runs ]_vars

\* two tyr_worker containers were listed: one rm ran, in the first of them
C22_Witness ==
    /\ pc = "open"
    /\ containers = <<"tyr_worker_2", "tyr_worker_1">>
    /\ exec_runs = <<[container |-> "tyr_worker_2", cmd |-> "rm", path |-> "fr-idf"]>>



\* C23: nb_call_to_request_compare is 0 when a test function starts, whatever
\* it held before; it changes within a test only by request_compare, which
\* adds exactly one before its GET (the call is counted also when the GET
\* fails) in create mode as in compare mode; the files a call reads or writes
\* are those of the ordinal the counter holds, so the k-th call of a test
\* uses ordinal k and no two calls of a test use the same.
C23_CallOrdinal ==
    [][ /\ (cpc = "session" /\ cpc' = "test") => nb_call_to_request_compare' = 0
        /\ cpc \in {"test", "create", "compare", "except"} =>
              \/ UNCHANGED nb_call_to_request_compare
              \/ /\ cpc = "test"
                 /\ nb_call_to_request_compare' = nb_call_to_request_compare + 1
                 /\ http_gets' = 1
                 /\ \/ cpc' = (IF create_ref THEN "create" ELSE "compare")
                    \/ cpc' = "ended" /\ raised'.type = "ConnectionError"
        /\ cpc \in {"create", "compare", "except"} =>
              /\ nb_call_to_request_compare \in Calls
              /\ \A p \in Paths :
                    files'[p] # files[p] => p.call = nb_call_to_request_compare
              /\ (cpc = "create" /\ files' # files) =>
                    files'[get_reference_file_path(nb_call_to_request_compare)]
                       # files[get_reference_file_path(nb_call_to_request_compare)]
        ]_vars

\* the second request_compare of a test function is under way in create
\* mode, the first one having written the reference of ordinal 1
C23_Witness ==
    /\ cpc = "create"
    /\ create_ref
    /\ nb_call_to_request_compare = 2
    /\ isfile(files, get_reference_file_path(1))
    /\ ~isfile(files, get_reference_file_path(2))



\* update_data_by_dataset has staged nothing
NothingStaged == dataset_types_to_process = <<>> /\ pushed = <<>>

\* C24: when the staging loop ends with no category staged, no job wait is
\* run and the next call is the reload wait with the baseline; it returns
\* only on a poll that reads a last_load_at different from the baseline, and
\* otherwise raises its RetryError once reload_timeout has passed, which ends
\* manage_data with the dataset not marked loaded.
C24_NothingStagedStillWaitsReload ==
    [][ NothingStaged =>
          /\ (pc = "stage" /\ pc' # "stage" /\ error' = NoExc) =>
                /\ pc' = "jobs_next"
                /\ stage_idx = Len(data_to_process) + 1
          /\ (pc = "jobs_next" /\ pc' # "jobs_next") =>
                /\ pc' = "reload"
                /\ wait' = DataWait("wait_for_kraken_reload")
                /\ UNCHANGED last_reload_time
          /\ pc \in {"stage", "jobs_next", "reload"} => "job_wait" \notin steps_run'
          /\ pc' = "check" =>
                /\ pc = "reload"
                /\ wait'.status = "returned"
                /\ new_data_loaded' # last_reload_time
          /\ (pc = "reload" /\ wait'.status = "raised"
                            /\ wait'.exc = Exc("RetryError", "kraken data is not loaded")) =>
                /\ new_data_loaded' = last_reload_time
                /\ wait'.delay >= data_set.reload_timeout
                /\ pc' = "idle"
                /\ error' = wait'.exc
                /\ dataset_binarized' = dataset_binarized
                /\ data_set.name \notin SeqToSet(dataset_binarized')
          /\ (pc = "reload" /\ wait' # wait /\ wait'.status = "calling") =>
                /\ new_data_loaded' = last_reload_time
                /\ wait'.delay - wait.wait_fixed < data_set.reload_timeout
          /\ dataset_binarized' # dataset_binarized =>
                /\ wait.name = "wait_for_kraken_reload"
                /\ "reload_wait" \in steps_run ]_vars

\* nothing was staged and last_load_at never differed from the baseline:
\* the reload wait timed out after several polls, the dataset is not loaded
C24_Witness ==
    /\ pc = "idle"
    /\ NothingStaged
    /\ stage_idx = Len(data_to_process) + 1
    /\ wait.name = "wait_for_kraken_reload"
    /\ wait.status = "raised"
    /\ wait.attempt_number > 1
    /\ error = Exc("RetryError", "kraken data is not loaded")
    /\ "job_wait" \notin steps_run
    /\ data_set.name \notin SeqToSet(dataset_binarized)



\* C25: with no tyr_worker container listed, the visit of the first category
\* that has a directory raises (IndexError of containers[0]) and ends
\* update_data_by_dataset: no wait is started, nothing is recorded as staged
\* and the dataset is not marked loaded; and whatever the containers, a type
\* is recorded as staged only in the step that puts its archive in a
\* container.
C25_NoContainerFailsAtFirstPush ==
    [][ /\ dataset_types_to_process' # dataset_types_to_process =>
              /\ containers # <<>>
              /\ pushed' = Append(pushed, data_to_process[stage_idx].files)
              /\ dataset_types_to_process' =
                     Append(dataset_types_to_process, data_to_process[stage_idx].type)
              /\ "put_archive" \in steps_run'
        /\ (pc = "stage" /\ containers = <<>> /\ stage_idx <= Len(data_to_process)) =>
              IF data_to_process[stage_idx].files \in local_dirs
              THEN /\ pc' = "idle"
                   /\ error' = Exc("IndexError", "list index out of range")
                   /\ \A i \in 1..(stage_idx - 1) : data_to_process[i].files \notin local_dirs
                   /\ wait' = NoWait
                   /\ {"job_wait", "reload_wait"} \cap steps_run' = {}
                   /\ pushed' = <<>> /\ dataset_types_to_process' = <<>>
                   /\ dataset_binarized' = dataset_binarized
                   /\ data_set.name \notin SeqToSet(dataset_binarized')
              ELSE /\ pc' = "stage"
                   /\ stage_idx' = stage_idx + 1
                   /\ error' = NoExc
        /\ (pc = "stage" /\ pc' = "jobs_next" /\ containers = <<>>) => local_dirs = {} ]_vars

\* no tyr_worker, fusio absent, osm present: the push of osm raised
C25_Witness ==
    /\ pc = "idle"
    /\ containers = <<>>
    /\ stage_idx = 2
    /\ local_dirs = {"osm", "geopal"}
    /\ error = Exc("IndexError", "list index out of range")
    /\ dataset_types_to_process = <<>>



\* the instances_configurator container of the compose project
Configurator == "navitia_instances_configurator_1"

\* C26: within wait_for_instance_configuration the wait for "exited" starts
\* only in the step in which the wait for "running" returns, on a poll that
\* sees the instances_configurator container running or sees none; and
\* wait_for_instance_configuration returns only in a later step in which the
\* wait for "exited" returns, on a poll that sees the container exited or
\* sees none.
C26_RunningThenExited ==
    [][ /\ (dpc # "config_exited" /\ dpc' = "config_exited") =>
              /\ dpc = "config_running"
              /\ fleet[Configurator] \in {"running", "absent"}
              /\ inner' = NewWait("wait_for_instance_configuration_status",
                                  StatusStopMaxDelay, StatusWaitFixed)
              /\ dwait' = dwait
        /\ (dpc # "tests" /\ dpc' = "tests") =>
              /\ dpc = "config_exited"
              /\ fleet[Configurator] \in {"exited", "absent"}
              /\ dwait.status = "calling"
              /\ dwait'.status = "returned"
              /\ dwait'.name = "wait_for_instance_configuration"
        /\ (dpc = "config_exited" /\ dpc' = "config_running") =>
              /\ dwait'.status = "calling"
              /\ dwait'.attempt_number = dwait.attempt_number + 1 ]_vars

\* wait_for_instance_configuration has returned with the container exited
C26_Witness ==
    /\ dpc = "tests"
    /\ dwait.name = "wait_for_instance_configuration"
    /\ dwait.status = "returned"
    /\ fleet[Configurator] = "exited"



\* C27: once the instances_configurator container has exited (and it stays
\* exited), wait_for_instance_configuration eventually returns, whether or
\* not a poll saw the container running before.
C27_ExitedLeadsToReturn ==
    (fleet[Configurator] = "exited" /\ dpc \in {"config_running", "config_exited"})
        ~> (dpc = "tests")

\* the positions of launch_coverages inside the loop over the instances, and
\* the order in which one instance goes through them
InstancePositions ==
    {"config_running", "config_exited", "tests", "stop", "stop_wait", "rm",
     "removal_wait", "remove_file"}
InstanceOrder ==
    {<<"launch", "config_running">>, <<"config_running", "config_exited">>,
     <<"config_exited", "config_running">>, <<"config_exited", "tests">>,
     <<"tests", "stop">>, <<"stop", "stop_wait">>, <<"stop_wait", "rm">>,
     <<"rm", "removal_wait">>, <<"removal_wait", "remove_file">>,
     <<"remove_file", "launch">>, <<"launch", "clean">>}
WaitPositions == {"config_running", "config_exited", "stop_wait", "removal_wait"}
KrakenContainers(covs, i) ==
    {n \in ContainerNames : KrakenName(covs[i]) \in Contains(n)}

\* C28: every instance of launch_coverages goes through compose up, the
\* return of wait_for_instance_configuration, the test run, the stop command,
\* the return of wait_for_kraken_stop (kraken not running or not found), the
\* rm command, the return of wait_for_docker_removal (no kraken container
\* left) and the deletion of the instance file, in this order; compose up of
\* the next instance comes only after the file of the one before is deleted;
\* a nonzero exit code of the tests skips neither the teardown nor the
\* instances that follow; has_failures is true exactly when one of the test
\* runs so far exited nonzero, and it is returned once all instances ran.
C28_InstanceEventOrder ==
    [][ /\ (dpc \in InstancePositions \cup {"launch"} /\ dpc' # dpc) =>
              \/ <<dpc, dpc'>> \in InstanceOrder
              \/ dpc \in WaitPositions /\ dpc' = "failed"
        /\ (dpc = "launch" /\ dpc' = "config_running") =>
              /\ cov_idx \in 1..Len(Coverages)
              /\ ~instance_file /\ instance_file'
              /\ cov_idx' = cov_idx /\ has_failures' = has_failures
        /\ dpc' \in InstancePositions => (instance_file' /\ cov_idx' = cov_idx)
        /\ (dpc = "tests" /\ dpc' # dpc) =>
              /\ dpc' = "stop"
              /\ pytest_exit' \in PytestExitCodes
              /\ has_failures' = (has_failures \/ pytest_exit' # 0)
        /\ dpc # "tests" => (has_failures' = has_failures /\ pytest_exit' = pytest_exit)
        /\ (dpc = "stop_wait" /\ dpc' = "rm") =>
              /\ dwait'.name = "wait_for_kraken_stop" /\ dwait'.status = "returned"
              /\ \A n \in KrakenContainers(Coverages, cov_idx) : fleet[n] # "running"
        /\ (dpc = "removal_wait" /\ dpc' = "remove_file") =>
              /\ dwait'.name = "wait_for_kraken_removal" /\ dwait'.status = "returned"
              /\ \A n \in KrakenContainers(Coverages, cov_idx) : fleet[n] = "absent"
        /\ (dpc = "remove_file" /\ dpc' # dpc) =>
              /\ dpc' = "launch"
              /\ ~instance_file'
              /\ cov_idx' = cov_idx + 1
        /\ (dpc = "launch" /\ cov_idx = 1) => ~has_failures
        /\ (dpc = "launch" /\ dpc' = "clean") =>
              /\ cov_idx = Len(Coverages) + 1
              /\ ~instance_file ]_vars

\* the tests of the first instance failed, those of the second passed, both
\* instances were torn down and launch_coverages returned True
C28_Witness ==
    /\ dpc = "report"
    /\ cov_idx = Len(Coverages) + 1
    /\ has_failures
    /\ pytest_exit = 0
    /\ ~instance_file
    /\ \A i \in 1..Len(Coverages) :
          \A n \in KrakenContainers(Coverages, i) : fleet[n] = "absent"

====
